---- MODULE Spec2Model ----
(***************************************************************************)
(* PI-USB-Data-Safegate: the device monitor (usb_monitor.py), the work     *)
(* queue and processing worker (daemon.py) and the cleanup ledger          *)
(* (cleanup_scheduler.py).                                                 *)
(*                                                                         *)
(* The specifications share the variables:                                 *)
(*   SpecMon  - the environment (devices, mounts, tool failures, udev      *)
(*              events) and the USBMonitor thread, with the service's      *)
(*              callbacks on_usb_inserted / on_usb_removed;                *)
(*   SpecWork - the service's start/stop, the insert callback as called by *)
(*              the monitor, and the processing worker threads with the    *)
(*              per-device pipeline.                                       *)
(*   SpecLedger - the CleanupScheduler: the in-memory ledger and its file, *)
(*              the registrations, the manual operations, the sweep, the   *)
(*              failures of the write and the restart of the program, one  *)
(*              operation at a time; SpecSweep has the registrations and   *)
(*              the sweeps as the clock advances; SpecLedgerThreads lets   *)
(*              the threads interleave at the steps of their operations.   *)
(* FairSpecMon / FairSpecWork add the weak fairness of the threads' steps. *)
(***************************************************************************)
EXTENDS Integers, Sequences, FiniteSets, TLC

\* ---------------------------------------------------------------- bounds
Devices == {"/dev/sdb1", "/dev/sdc1"}

MaxEnvSteps == 5

MaxJobs == 2

MaxStarts == 2

MaxFiles == 1

AutoDeleteChoices == {1, 2}

\* Time is counted in units: MicrosPerSecond units make a second and
\* SecondsPerDay seconds a day (scaled down from 10^6 and 86400).
MicrosPerSecond == 2

SecondsPerDay == 1

MaxTime == 3

\* Registrations (schedule_deletion, add_manual_cleanup) per behaviour.
MaxEntries == 1

\* The artifact of an earlier run, and the paths registered in this one.
OldPath == <<"out", "a.zip">>

FilePaths == {<<"out", "b.zip">>}

LocalPaths == FilePaths \cup {OldPath}

ManualDays == {0}

LThreads == {"worker", "manual", "daemon"}

\* Calls of set_status, add_error and increment_processing_count per
\* behaviour.
MaxStatusCalls == 1

MaxErrorCalls == 11

MaxCountCalls == 2

\* Callbacks of the monitor that raise, per behaviour.
MaxCallbackErrors == 1

\* The error list keeps the last 10 records.
MaxErrorsKept == 10

Phases == {"idle", "processing"}

\* The seconds the cleanup thread waits between two sweeps
\* (cleanup_check_interval_hours * 3600) and after a sweep that raised (60),
\* scaled down.
IntervalSeconds == 2

ErrorSleepSeconds == 3

ErrorMessages == {"E"}

\* ------------------------------------------------------------- variables
VARIABLES
  \* environment of the monitor
  attached,            \* device nodes that exist
  mounted,             \* device nodes with a mounted filesystem
  enum_fails,          \* lsblk / udevadm currently fail
  env_steps,           \* number of environment transitions so far
  \* USBMonitor
  mon_running,         \* USBMonitor.running
  use_pyudev,          \* USBMonitor.use_pyudev
  mon_mode,            \* loop the monitor thread executes: none/pyudev/polling
  mon_pc,              \* position of the monitor thread
  known_devices,       \* USBMonitor.known_devices
  device_info_cache,   \* USBMonitor.device_info_cache
  mon_pending,         \* device_info of the _device_inserted in its grace sleep
  poll_current,        \* current_devices of the running poll cycle
  poll_new,            \* new_devices of the running poll cycle not yet handled
  \* observation of the callbacks
  insert_calls,        \* per path: number of on_insert_callback invocations
  remove_calls,        \* per path: number of on_remove_callback invocations
  verified,            \* insert callback fired, attached and mounted ever since
  ins_since_attach,    \* insert callback fired since the last attachment
  rm_in_absence,       \* removal callback fired in the current absent interval
  unverified,          \* latest mount verification of the path failed
  scanned,             \* recorded by the initial scan, attached ever since
  ignored_removals,    \* removal signals without callback, this absent interval
  remove_arg,          \* snapshot handed to the removal callback, this absent interval
  \* USBSafegateService
  running,             \* USBSafegateService.running
  shutdown_event,      \* USBSafegateService.shutdown_event
  processing_queue,    \* USBSafegateService.processing_queue
  status,              \* StatusManager.current_status['daemon_status']
  workers,             \* the processing threads spawned by start()
  \* observation of the jobs
  job_trace,           \* per job: the collaborator calls made for it, in order
  job_results,         \* per job: what the collaborators answered
  start_order,         \* job ids in the order _process_usb_drive was entered
  finished,            \* jobs whose _process_usb_drive returned
  \* CleanupScheduler
  auto_delete_days,    \* cleanup_config['auto_delete_days']
  cleanup_schedule,    \* CleanupScheduler.cleanup_schedule
  ledger_file,         \* contents of cleanup_schedule.json
  now,                 \* the wall clock, in units
  local_files,         \* paths that exist in the local filesystem
  lthreads,            \* per thread: its position in a ledger operation
  registered,          \* registrations made so far
  \* observation of the ledger
  fresh_load,          \* nothing has touched the ledger since it was loaded
  write_state,         \* latest write attempt: none / ok / failed
  last_written,        \* the entries serialised by the latest completed write
  sweep_log,           \* the outcomes of the sweep that has just run
  failed_before,       \* listed entries whose deletion failed in some sweep
  returned,            \* what the manual operation or query just returned
  \* the cleanup thread
  cleanup_running,     \* CleanupScheduler.running
  cleanup_pc,          \* position of the thread in _cleanup_daemon
  sleep_left,          \* seconds left of the wait the thread is in
  items_to_remove,     \* items_to_remove of the sweep in progress
  late_ticks,          \* seconds slept since the flag was cleared
  \* StatusManager (the file is followed in SpecStatus)
  processing_count,    \* current_status['processing_count']
  errors,              \* current_status['errors']
  status_file,         \* contents of status.json
  status_lock,         \* StatusManager.lock: the thread holding it, or "free"
  sthreads,            \* per thread: its position in a status mutation
  status_calls,        \* mutations completed so far, and the latest write
  \* failures of the callbacks
  callback_errors,     \* callbacks of the monitor that have raised
  \* monitor loops of earlier start() calls
  mon_old              \* the other monitor threads: their local state

envVars == <<attached, mounted, enum_fails, env_steps>>

monVars == <<mon_running, use_pyudev, mon_mode, mon_pc, known_devices,
             device_info_cache, mon_pending, poll_current, poll_new>>

cbVars == <<insert_calls, remove_calls, verified, ins_since_attach,
            rm_in_absence, unverified, scanned, ignored_removals,
            remove_arg>>

svcVars == <<running, shutdown_event, workers>>

jobVars == <<job_trace, job_results, start_order, finished>>

ledgerObs == <<fresh_load, write_state, last_written, sweep_log,
               failed_before, returned>>

ledgerState == <<ledger_file, now, local_files, lthreads, registered,
                 ledgerObs>>

ledgerVars == <<auto_delete_days, cleanup_schedule, ledgerState>>

lifeVars == <<cleanup_running, cleanup_pc, sleep_left, items_to_remove,
              late_ticks>>

statVars == <<processing_count, errors, status_file, status_lock, sthreads,
              status_calls>>

extVars == <<lifeVars, statVars, callback_errors, mon_old>>

vars == <<envVars, monVars, cbVars, svcVars, processing_queue, status,
          jobVars, ledgerVars, extVars>>

\* --------------------------------------------------------------- helpers
NoInfo == [device |-> "", mount_point |-> FALSE]

NoJob == [action |-> "none", device |-> NoInfo, id |-> 0]

NoResults == [mount_ok |-> FALSE, infected |-> 0, safe |-> 0, zip |-> FALSE,
              upload |-> FALSE, share |-> FALSE, email |-> FALSE,
              sent |-> FALSE, raised |-> FALSE]

Info(d, mp) == [device |-> d, mount_point |-> mp]

\* ------------------------------------------------------------------ Init
\* The monitor and the service after construction.
\* ------------------------------------------------ StatusManager: record
\* The execution contexts that mutate the status.
StThreads == {"monitor", "worker", "main"}

\* A thread that is in no status mutation.
StIdle == [pc |-> "idle", op |-> "none", arg |-> "", read |-> 0]

\* current_status, as far as it is followed: phase, counter, error list.
status_record(daemon_status, count, errs) ==
  [daemon_status |-> daemon_status, processing_count |-> count,
   errors |-> errs]

\* StatusManager.__init__: the initial record, written by _save_status.
StatusManager_init ==
  /\ processing_count = 0
  /\ errors = <<>>
  /\ status_file = [state |-> "ok", data |-> status_record("stopped", 0, <<>>)]
  /\ status_lock = "free"
  /\ sthreads = [t \in StThreads |-> StIdle]
  /\ status_calls = [set_status |-> 0, add_error |-> 0, increment |-> 0,
                     write |-> "ok"]

InitService ==
  /\ StatusManager_init
  /\ callback_errors = 0
  /\ mon_old = <<>>
  /\ attached \in SUBSET Devices
  /\ mounted \in SUBSET attached
  /\ enum_fails = FALSE
  /\ env_steps = 0
  /\ mon_running = FALSE
  /\ use_pyudev \in BOOLEAN
  /\ mon_mode = "none"
  /\ mon_pc = "none"
  /\ known_devices = {}
  /\ device_info_cache = [d \in Devices |-> NoInfo]
  /\ mon_pending = NoInfo
  /\ poll_current = {}
  /\ poll_new = {}
  /\ insert_calls = [d \in Devices |-> 0]
  /\ remove_calls = [d \in Devices |-> 0]
  /\ verified = {}
  /\ ins_since_attach = {}
  /\ rm_in_absence = {}
  /\ unverified = {}
  /\ scanned = {}
  /\ ignored_removals = {}
  /\ remove_arg = [d \in Devices |-> NoInfo]
  /\ running = FALSE
  /\ shutdown_event = FALSE
  /\ processing_queue = <<>>
  /\ status = "stopped"
  /\ workers = <<>>
  /\ job_trace = <<>>
  /\ job_results = <<>>
  /\ start_order = <<>>
  /\ finished = {}

\* ------------------------------------- CleanupScheduler: file and clock
UnitsPerDay == SecondsPerDay * MicrosPerSecond

\* The ledger file before any write: os.path.exists is false.
NoFile == [state |-> "absent", data |-> <<>>]

\* Variant: the timestamp is written to the second.
isoformat_seconds(dt) == <<dt \div MicrosPerSecond>>

\* datetime.isoformat(): the seconds, and the microseconds unless they are 0.
isoformat(dt) ==
  IF dt % MicrosPerSecond = 0
  THEN <<dt \div MicrosPerSecond>>
  ELSE <<dt \div MicrosPerSecond, dt % MicrosPerSecond>>

\* The strings datetime.fromisoformat accepts.
parsable(s) == Len(s) \in {1, 2}

\* Variant: the fraction of the second is not read back.
fromisoformat_seconds(s) == s[1] * MicrosPerSecond

\* datetime.fromisoformat(s)
fromisoformat(s) ==
  s[1] * MicrosPerSecond + (IF Len(s) = 2 THEN s[2] ELSE 0)

\* os.path.basename
basename(path) == path[Len(path)]

\* The copies save_cleanup_schedule serialises: item.copy() with the
\* upload_time replaced by its ISO string.
schedule_data_of(schedule) ==
  [i \in DOMAIN schedule |->
     [schedule[i] EXCEPT !.upload_time = isoformat(@)]]

\* load_cleanup_schedule: no file gives the empty ledger; a file that
\* json.load rejects, or any timestamp that fromisoformat rejects, raises
\* inside the try and the except sets the ledger to [].
load_cleanup_schedule(file) ==
  IF file.state # "ok"
  THEN <<>>
  ELSE IF \E i \in DOMAIN file.data : ~parsable(file.data[i].upload_time)
  THEN <<>>
  ELSE [i \in DOMAIN file.data |->
          [file.data[i] EXCEPT !.upload_time = fromisoformat(@)]]

\* The three ways the write of save_cleanup_schedule can end: written;
\* open() raised and the file is as it was; the write raised after open()
\* had truncated the file.  Both exceptions are logged and swallowed.
WriteOutcomes == {"ok", "open_failed", "dump_failed"}

\* Variant: a write that raised has left the complete data behind.
written_file_despite_error(file, schedule_data, outcome) ==
  CASE outcome = "ok" -> [state |-> "ok", data |-> schedule_data]
    [] outcome = "open_failed" -> file
    [] outcome = "dump_failed" -> [state |-> "ok", data |-> schedule_data]

written_file(file, schedule_data, outcome) ==
  CASE outcome = "ok" -> [state |-> "ok", data |-> schedule_data]
    [] outcome = "open_failed" -> file
    [] outcome = "dump_failed" -> [state |-> "corrupt", data |-> <<>>]

\* A thread that is in no ledger operation.
Idle == [pc |-> "idle", op |-> "none", before |-> <<>>,
         schedule_data |-> <<>>, saved |-> <<>>]

NoSweep == [ran |-> FALSE, outcomes |-> <<>>, retried |-> {}]

\* No manual operation or query has just returned.
NoReturn == [op |-> "none", arg |-> "", value |-> FALSE]

\* CleanupScheduler.__init__ with the ledger file it finds; it ends in
\* start_cleanup_daemon, which sets the flag and spawns the thread.
CleanupScheduler_init(file) ==
  /\ returned = NoReturn
  /\ cleanup_running = TRUE
  /\ cleanup_pc = "loop"
  /\ sleep_left = 0
  /\ items_to_remove = <<>>
  /\ late_ticks = 0
  /\ ledger_file = file
  /\ cleanup_schedule = load_cleanup_schedule(file)
  /\ lthreads = [t \in LThreads |-> Idle]
  /\ registered = 0
  /\ fresh_load = TRUE
  /\ write_state = "none"
  /\ last_written = <<>>
  /\ sweep_log = NoSweep
  /\ failed_before = {}

Init ==
  /\ InitService
  /\ auto_delete_days \in AutoDeleteChoices
  /\ local_files = {}
  /\ now = 0
  /\ CleanupScheduler_init(NoFile)

\* ------------------------------------------- the service's two callbacks
\* queue.Queue() is built without a maxsize: 0 means unbounded.
processing_queue_maxsize == 0

\* Variant: put waits until the worker has taken the previous item.
put_waits_for_room == processing_queue = <<>>

\* Queue.put blocks while a bounded queue is full.
queue_put_ready ==
  \/ processing_queue_maxsize = 0
  \/ Len(processing_queue) < processing_queue_maxsize

\* Variant: a queue.LifoQueue, the newest item is taken first.
put_first(items, item) == <<item>> \o items

\* Queue.put of a queue.Queue: the item goes to the end.
Queue_put(items, item) == Append(items, item)

on_usb_inserted(device_info) ==
  /\ queue_put_ready
  /\ status' = "processing"
  /\ processing_queue' = Queue_put(processing_queue,
        [action |-> "process_usb", device |-> device_info,
         id |-> Len(job_trace) + 1])
  /\ job_trace' = Append(job_trace, <<>>)
  /\ job_results' = Append(job_results, NoResults)

on_usb_removed(device_info) ==
  /\ status' = "idle"
  /\ UNCHANGED <<processing_queue, job_trace, job_results>>

\* ------------------------------------------------- the monitor's queries
\* lsblk listing: external partitions with a mount point; [] on any failure.
get_usb_storage_devices == IF enum_fails THEN {} ELSE mounted

\* udevadm query of the base device; False when the query fails.
is_usb_storage_device(d) == d \in attached /\ ~enum_fails

\* lsblk of one device node; None when it fails.  The mount point is the one
\* at detection time and may be null.
get_device_info(d) ==
  IF d \in attached /\ ~enum_fails THEN Info(d, d \in mounted) ELSE NoInfo

\* findmnt <device>
is_device_mounted(d) == d \in mounted

\* ----------------------------------------------------------- environment
EnvBudget == env_steps < MaxEnvSteps /\ env_steps' = env_steps + 1

EnvFrame == UNCHANGED <<monVars, svcVars, processing_queue, status, jobVars,
                        ledgerVars, extVars, insert_calls, remove_calls,
                        unverified>>

Attach(d) ==
  /\ d \notin attached
  /\ EnvBudget
  /\ attached' = attached \cup {d}
  /\ ins_since_attach' = ins_since_attach \ {d}
  /\ rm_in_absence' = rm_in_absence \ {d}
  /\ ignored_removals' = ignored_removals \ {d}
  /\ remove_arg' = [remove_arg EXCEPT ![d] = NoInfo]
  /\ UNCHANGED <<mounted, enum_fails, verified, scanned>>
  /\ EnvFrame

Detach(d) ==
  /\ d \in attached
  /\ EnvBudget
  /\ attached' = attached \ {d}
  /\ mounted' = mounted \ {d}
  /\ verified' = verified \ {d}
  /\ rm_in_absence' = rm_in_absence \ {d}
  /\ ignored_removals' = ignored_removals \ {d}
  /\ remove_arg' = [remove_arg EXCEPT ![d] = NoInfo]
  /\ scanned' = scanned \ {d}
  /\ UNCHANGED <<enum_fails, ins_since_attach>>
  /\ EnvFrame

Mount(d) ==
  /\ d \in attached \ mounted
  /\ EnvBudget
  /\ mounted' = mounted \cup {d}
  /\ UNCHANGED <<attached, enum_fails, verified, ins_since_attach,
                 rm_in_absence, scanned, ignored_removals,
                 remove_arg>>
  /\ EnvFrame

Unmount(d) ==
  /\ d \in mounted
  /\ EnvBudget
  /\ mounted' = mounted \ {d}
  /\ verified' = verified \ {d}
  /\ UNCHANGED <<attached, enum_fails, ins_since_attach, rm_in_absence,
                 scanned, ignored_removals,
                 remove_arg>>
  /\ EnvFrame

ToolsToggle ==
  /\ EnvBudget
  /\ enum_fails' = ~enum_fails
  /\ UNCHANGED <<attached, mounted, verified, ins_since_attach,
                 rm_in_absence, scanned, ignored_removals,
                 remove_arg>>
  /\ EnvFrame

\* ------------------------------------------------------------ USBMonitor
MonFrame ==
  UNCHANGED <<envVars, svcVars, start_order, finished, ledgerVars, extVars>>

\* _scan_existing_devices: the listed devices become the known set and are
\* cached; no callback fires for them.
scan_existing_devices ==
  /\ known_devices' = get_usb_storage_devices
  /\ device_info_cache' = [d \in Devices |->
        IF d \in get_usb_storage_devices THEN Info(d, TRUE)
        ELSE device_info_cache[d]]

\* USBMonitor.start() on a monitor that is not running.
USBMonitor_start ==
  /\ ~mon_running
  /\ mon_running' = TRUE
  /\ scan_existing_devices
  /\ mon_mode' = IF use_pyudev THEN "pyudev" ELSE "polling"
  /\ mon_pc' = "wait"
  /\ UNCHANGED <<use_pyudev, mon_pending, poll_current, poll_new>>

MonitorStart ==
  /\ USBMonitor_start
  /\ scanned' = get_usb_storage_devices
  /\ UNCHANGED <<insert_calls, remove_calls, verified, ins_since_attach,
                 rm_in_absence, unverified, ignored_removals,
                 remove_arg>>
  /\ UNCHANGED <<processing_queue, status, job_trace, job_results>>
  /\ MonFrame

\* _device_inserted up to its time.sleep(1).
device_inserted_begin(device_info) ==
  /\ known_devices' = known_devices \cup {device_info.device}
  /\ device_info_cache' =
        [device_info_cache EXCEPT ![device_info.device] = device_info]
  /\ mon_pending' = device_info
  /\ mon_pc' = "grace"

\* Variant: the callback is made without re-verifying the mount.
verify_skipped(device_info) == TRUE

\* The gate of _device_inserted after the grace period.
verify_passes(device_info) == is_device_mounted(device_info.device)

\* _device_inserted after the sleep: re-verify the mount, then call back or
\* log and drop.
DeviceInsertedVerify ==
  /\ mon_pc = "grace"
  /\ LET d == mon_pending.device IN
       IF verify_passes(mon_pending)
       THEN /\ on_usb_inserted(mon_pending)
            /\ insert_calls' = [insert_calls EXCEPT ![d] = @ + 1]
            /\ verified' = verified \cup {d}
            /\ ins_since_attach' = ins_since_attach \cup {d}
            /\ unverified' = unverified \ {d}
       ELSE /\ unverified' = unverified \cup {d}
            /\ UNCHANGED <<insert_calls, verified, ins_since_attach,
                           processing_queue, status, job_trace, job_results>>
  /\ mon_pending' = NoInfo
  /\ mon_pc' = IF mon_mode = "polling" THEN "poll_new" ELSE "wait"
  /\ UNCHANGED <<mon_running, use_pyudev, mon_mode, known_devices,
                 device_info_cache, poll_current, poll_new, remove_calls,
                 rm_in_absence, scanned, ignored_removals,
                 remove_arg>>
  /\ MonFrame

\* _handle_device_add for a udev "add" event of device node d.
handle_device_add(d) ==
  IF is_usb_storage_device(d) /\ get_device_info(d) # NoInfo
  THEN device_inserted_begin(get_device_info(d))
  ELSE UNCHANGED <<known_devices, device_info_cache, mon_pending, mon_pc>>

UdevAdd(d) ==
  /\ mon_mode = "pyudev" /\ mon_pc = "wait" /\ mon_running
  /\ EnvBudget
  /\ handle_device_add(d)
  /\ UNCHANGED <<attached, mounted, enum_fails>>
  /\ UNCHANGED <<mon_running, use_pyudev, mon_mode, poll_current, poll_new>>
  /\ UNCHANGED <<cbVars, processing_queue, status, job_trace, job_results>>
  /\ UNCHANGED <<svcVars, start_order, finished, ledgerVars, extVars>>

\* Variant: a removal calls back whether or not a snapshot is cached.
removal_fires_ungated(gone) == gone

\* The paths for which a removal of the paths in `gone' calls back: those
\* that still have a cached snapshot.
removal_fires(gone) == {d \in gone : device_info_cache[d] # NoInfo}

\* Variant: the device is queried again when its removal is handled.
requeried_snapshot(d) == get_device_info(d)

\* self.device_info_cache[device_path], the argument of _device_removed.
removed_snapshot(d) == device_info_cache[d]

\* _device_removed for every path of `fired', observed.
device_removed(fired) ==
  /\ remove_calls' = [d \in Devices |->
        IF d \in fired THEN remove_calls[d] + 1 ELSE remove_calls[d]]
  /\ remove_arg' = [d \in Devices |->
        IF d \in fired THEN removed_snapshot(d) ELSE remove_arg[d]]
  /\ rm_in_absence' = rm_in_absence \cup fired
  /\ IF fired # {} THEN on_usb_removed(NoInfo)
     ELSE UNCHANGED <<status, processing_queue, job_trace, job_results>>

\* _handle_device_remove for a udev "remove" event of device node d.
handle_device_remove(d) ==
  /\ device_removed(removal_fires({d}))
  /\ known_devices' = known_devices \ removal_fires({d})
  /\ device_info_cache' = [e \in Devices |->
        IF e \in removal_fires({d}) THEN NoInfo ELSE device_info_cache[e]]
  /\ unverified' = unverified \ removal_fires({d})
  /\ ignored_removals' = ignored_removals \cup ({d} \ removal_fires({d}))

UdevRemove(d) ==
  /\ mon_mode = "pyudev" /\ mon_pc = "wait" /\ mon_running
  /\ EnvBudget
  /\ handle_device_remove(d)
  /\ UNCHANGED <<attached, mounted, enum_fails>>
  /\ UNCHANGED <<mon_running, use_pyudev, mon_mode, mon_pc, mon_pending,
                 poll_current, poll_new>>
  /\ UNCHANGED <<insert_calls, verified, ins_since_attach, scanned>>
  /\ UNCHANGED <<svcVars, start_order, finished, ledgerVars, extVars>>

\* Variant: the exception ends the monitor thread.
fallback_gives_up == "none"

\* except Exception: self._monitor_with_polling()
fallback_mode == "polling"

\* An exception in the pyudev loop: the thread falls back to polling.
PyudevError ==
  /\ mon_mode = "pyudev" /\ mon_pc = "wait"
  /\ mon_mode' = fallback_mode
  /\ UNCHANGED <<mon_running, use_pyudev, mon_pc, known_devices,
                 device_info_cache, mon_pending, poll_current, poll_new>>
  /\ UNCHANGED <<cbVars, processing_queue, status, job_trace, job_results>>
  /\ MonFrame

\* One poll cycle, first part: enumerate and derive the new paths.
PollEnumerate ==
  /\ mon_mode = "polling" /\ mon_pc = "wait" /\ mon_running
  /\ poll_current' = get_usb_storage_devices
  /\ poll_new' = get_usb_storage_devices \ known_devices
  /\ mon_pc' = "poll_new"
  /\ UNCHANGED <<mon_running, use_pyudev, mon_mode, known_devices,
                 device_info_cache, mon_pending>>
  /\ UNCHANGED <<cbVars, processing_queue, status, job_trace, job_results>>
  /\ MonFrame

\* The loop over new_devices: _device_inserted for one of them.
PollInsert(d) ==
  /\ mon_pc = "poll_new" /\ d \in poll_new
  /\ device_inserted_begin(Info(d, TRUE))
  /\ poll_new' = poll_new \ {d}
  /\ UNCHANGED <<mon_running, use_pyudev, mon_mode, poll_current>>
  /\ UNCHANGED <<cbVars, processing_queue, status, job_trace, job_results>>
  /\ MonFrame

\* The paths the poll cycle treats as removed.
poll_removed == known_devices \ poll_current

\* One poll cycle, last part: removals, then the known set and the cache are
\* replaced by what the cycle listed; then time.sleep(2).
PollFinish ==
  /\ mon_pc = "poll_new" /\ poll_new = {}
  /\ device_removed(removal_fires(poll_removed))
  /\ known_devices' = poll_current
  /\ device_info_cache' = [d \in Devices |->
        IF d \in poll_current THEN Info(d, TRUE)
        ELSE IF d \in removal_fires(poll_removed) THEN NoInfo
        ELSE device_info_cache[d]]
  /\ unverified' = unverified \cap poll_current
  /\ mon_pc' = "wait"
  /\ UNCHANGED <<mon_running, use_pyudev, mon_mode, mon_pending,
                 poll_current, poll_new>>
  /\ UNCHANGED <<insert_calls, verified, ins_since_attach, scanned,
                 ignored_removals>>
  /\ MonFrame

NextMon ==
  \/ \E d \in Devices : Attach(d)
  \/ \E d \in Devices : Detach(d)
  \/ \E d \in Devices : Mount(d)
  \/ \E d \in Devices : Unmount(d)
  \/ ToolsToggle
  \/ MonitorStart
  \/ \E d \in Devices : UdevAdd(d)
  \/ \E d \in Devices : UdevRemove(d)
  \/ PyudevError
  \/ DeviceInsertedVerify
  \/ PollEnumerate
  \/ \E d \in Devices : PollInsert(d)
  \/ PollFinish

SpecMon == Init /\ [][NextMon]_vars

\* The monitor thread's own steps: they are taken whenever they stay enabled.
MonThreadStep ==
  \/ DeviceInsertedVerify
  \/ PollEnumerate
  \/ \E d \in Devices : PollInsert(d)
  \/ PollFinish

FairSpecMon == SpecMon /\ WF_vars(MonThreadStep)

\* ------------------------------------------- USBMonitor, raising callbacks
FaultFrame ==
  UNCHANGED <<svcVars, processing_queue, status, jobVars, ledgerVars,
              lifeVars, statVars, cbVars, mon_old>>

\* Variant: an exception of a callback ends the monitor thread.
callback_error_ends_loop == "exited"

\* The exception of a callback is caught and logged: by _handle_device_add /
\* _handle_device_remove in the event loop, which then waits for the next
\* event, and by the try of the poll cycle, which then sleeps and starts the
\* next cycle.
after_callback_error == "wait"

\* _device_inserted after its sleep, the mount verified: on_insert_callback
\* raises.  The rest of a poll cycle is skipped.
InsertCallbackRaises ==
  /\ mon_pc = "grace"
  /\ verify_passes(mon_pending)
  /\ callback_errors < MaxCallbackErrors
  /\ callback_errors' = callback_errors + 1
  /\ mon_pending' = NoInfo
  /\ poll_new' = {}
  /\ mon_pc' = after_callback_error
  /\ UNCHANGED <<mon_running, use_pyudev, mon_mode, known_devices,
                 device_info_cache, poll_current>>
  /\ UNCHANGED envVars
  /\ FaultFrame

\* _handle_device_remove for a udev "remove" event of a cached device:
\* _device_removed discards the path from the known set, on_remove_callback
\* raises, and the snapshot stays in the cache.
UdevRemoveCallbackRaises(d) ==
  /\ mon_mode = "pyudev" /\ mon_pc = "wait" /\ mon_running
  /\ d \in removal_fires({d})
  /\ EnvBudget
  /\ callback_errors < MaxCallbackErrors
  /\ callback_errors' = callback_errors + 1
  /\ known_devices' = known_devices \ {d}
  /\ mon_pc' = after_callback_error
  /\ UNCHANGED <<mon_running, use_pyudev, mon_mode, device_info_cache,
                 mon_pending, poll_current, poll_new>>
  /\ UNCHANGED <<attached, mounted, enum_fails>>
  /\ FaultFrame

\* The loop over removed_devices of a poll cycle: on_remove_callback raises
\* for the first path handled; the rest of the cycle is skipped.
PollRemoveCallbackRaises(d) ==
  /\ mon_pc = "poll_new" /\ poll_new = {}
  /\ d \in removal_fires(poll_removed)
  /\ callback_errors < MaxCallbackErrors
  /\ callback_errors' = callback_errors + 1
  /\ known_devices' = known_devices \ {d}
  /\ mon_pc' = after_callback_error
  /\ UNCHANGED <<mon_running, use_pyudev, mon_mode, device_info_cache,
                 mon_pending, poll_current, poll_new>>
  /\ UNCHANGED envVars
  /\ FaultFrame

\* The monitor with callbacks that may raise.
NextMonFaults ==
  \/ NextMon
  \/ InsertCallbackRaises
  \/ \E d \in Devices : UdevRemoveCallbackRaises(d)
  \/ \E d \in Devices : PollRemoveCallbackRaises(d)

SpecMonFaults == Init /\ [][NextMonFaults]_vars

\* --------------------------------------------------- USBSafegateService
\* start() on a service that is not running: the worker thread is spawned
\* and the monitor started; the call then fails in self.cleanup.start()
\* (CleanupScheduler has no such method), so the status is not set to idle.
ServiceStart ==
  /\ ~running
  /\ Len(workers) < MaxStarts
  /\ running' = TRUE
  /\ workers' = Append(workers, [pc |-> "check", job |-> NoJob])
  /\ IF mon_running
     THEN UNCHANGED monVars
     ELSE USBMonitor_start
  /\ UNCHANGED <<shutdown_event, processing_queue, status, jobVars,
                 ledgerVars, extVars, envVars, cbVars>>

\* stop() on a running service: the flags are set and the monitor stopped;
\* the call then fails in self.cleanup.stop(), before the join of the worker
\* and before the status is set to stopped.
ServiceStop ==
  /\ running
  /\ running' = FALSE
  /\ shutdown_event' = TRUE
  /\ mon_running' = FALSE
  /\ UNCHANGED <<use_pyudev, mon_mode, mon_pc, known_devices,
                 device_info_cache, mon_pending, poll_current, poll_new>>
  /\ UNCHANGED <<workers, processing_queue, status, jobVars, ledgerVars,
                 extVars, envVars, cbVars>>

\* The monitor thread invoking the insert callback with a device snapshot.
MonitorInsertCallback(device_info) ==
  /\ mon_pc \notin {"none", "exited"}
  /\ Len(job_trace) < MaxJobs
  /\ on_usb_inserted(device_info)
  /\ UNCHANGED <<svcVars, start_order, finished, ledgerVars, extVars,
                 envVars, monVars, cbVars>>

\* ------------------------------------------------- the processing worker
WorkFrame ==
  UNCHANGED <<envVars, monVars, cbVars, running, shutdown_event, extVars>>

PipelinePcs == {"mount", "scan", "archive", "upload", "share", "recipient",
                "notify", "schedule"}

\* Variant: the loop tests the running flag only.
loop_ignores_shutdown == running

\* while self.running and not self.shutdown_event.is_set()
worker_loop_condition == running /\ ~shutdown_event

WorkerCheck(w) ==
  /\ w \in DOMAIN workers
  /\ workers[w].pc = "check"
  /\ workers' = [workers EXCEPT ![w].pc =
        IF worker_loop_condition THEN "get" ELSE "exited"]
  /\ UNCHANGED <<processing_queue, status, jobVars, ledgerVars>>
  /\ WorkFrame

\* Variant: the most recently enqueued item is returned first.
queue_get_last == Len(processing_queue)

\* Position in the queue of the item that queue.get returns.
queue_get_index == 1

\* Variant: get returns the item and leaves it in the queue.
queue_kept(i) == processing_queue

\* The queue after queue.get took the item at position i.
queue_without(i) ==
  [k \in 1..(Len(processing_queue) - 1) |->
     IF k < i THEN processing_queue[k] ELSE processing_queue[k + 1]]

\* processing_queue.get(timeout=1.0): an item, and the call of
\* _process_usb_drive; or queue.Empty and the next turn of the loop.
WorkerGet(w) ==
  /\ w \in DOMAIN workers
  /\ workers[w].pc = "get"
  /\ IF processing_queue # <<>>
     THEN /\ workers' = [workers EXCEPT
               ![w] = [pc |-> "mount",
                       job |-> processing_queue[queue_get_index]]]
          /\ processing_queue' = queue_without(queue_get_index)
          /\ start_order' =
               Append(start_order, processing_queue[queue_get_index].id)
     ELSE /\ workers' = [workers EXCEPT ![w].pc = "check"]
          /\ UNCHANGED <<processing_queue, start_order>>
  /\ UNCHANGED <<status, job_trace, job_results, finished, ledgerVars>>
  /\ WorkFrame

\* A collaborator call of stage `stage' for the job of worker w.
Called(w, stage) ==
  job_trace' = [job_trace EXCEPT ![workers[w].job.id] = Append(@, stage)]

\* _process_usb_drive returns, task_done(), next turn of the loop.
Return(w) ==
  /\ workers' = [workers EXCEPT ![w] = [pc |-> "check", job |-> NoJob]]
  /\ finished' = finished \cup {workers[w].job.id}

Goto(w, pc) ==
  /\ workers' = [workers EXCEPT ![w].pc = pc]
  /\ UNCHANGED finished

\* Variant: the exception leaves the loop and ends the worker thread.
raised_ends_worker(w) ==
  /\ job_results' = [job_results EXCEPT ![workers[w].job.id].raised = TRUE]
  /\ status' = "error"
  /\ workers' = [workers EXCEPT ![w] = [pc |-> "exited", job |-> NoJob]]
  /\ finished' = finished \cup {workers[w].job.id}

\* except Exception: status error, return.
Raised(w) ==
  /\ job_results' = [job_results EXCEPT ![workers[w].job.id].raised = TRUE]
  /\ status' = "error"
  /\ Return(w)

AtStage(w, pc) == w \in DOMAIN workers /\ workers[w].pc = pc

\* Variant: the job is processed whatever its snapshot says.
mount_point_unchecked(device_info, exists) == TRUE

\* not (not mount_point or not os.path.exists(mount_point))
mount_point_valid(device_info, exists) == device_info.mount_point /\ exists

\* The mount-point check that opens _process_usb_drive.
ProcMount(w) ==
  /\ AtStage(w, "mount")
  /\ \E exists \in BOOLEAN :
       IF mount_point_valid(workers[w].job.device, exists)
       THEN /\ job_results' =
                 [job_results EXCEPT ![workers[w].job.id].mount_ok = TRUE]
            /\ status' = "scanning"
            /\ Goto(w, "scan")
       ELSE /\ UNCHANGED <<job_results, status>>
            /\ Return(w)
  /\ UNCHANGED <<processing_queue, job_trace, start_order, ledgerVars>>
  /\ WorkFrame

\* Variant: an infection stops the job only when no safe file was found.
infected_without_safe(scan_result) ==
  scan_result.infected > 0 /\ scan_result.safe = 0

\* if scan_result['infected_files']
infected_found(scan_result) == scan_result.infected > 0

\* scanner.scan_directory and the two branches on its result.
ProcScan(w) ==
  /\ AtStage(w, "scan")
  /\ Called(w, "scan")
  /\ \/ Raised(w)
     \/ \E scan_result \in [infected : 0..MaxFiles, safe : 0..MaxFiles] :
          /\ job_results' = [job_results EXCEPT
                ![workers[w].job.id].infected = scan_result.infected,
                ![workers[w].job.id].safe = scan_result.safe]
          /\ IF infected_found(scan_result)
             THEN status' = "error" /\ Return(w)
             ELSE IF scan_result.safe = 0
             THEN status' = "idle" /\ Return(w)
             ELSE status' = "processing" /\ Goto(w, "archive")
  /\ UNCHANGED <<processing_queue, start_order, ledgerVars>>
  /\ WorkFrame

\* file_processor.create_zip
ProcArchive(w) ==
  /\ AtStage(w, "archive")
  /\ Called(w, "archive")
  /\ \/ Raised(w)
     \/ \E zip_path \in BOOLEAN :
          /\ job_results' =
               [job_results EXCEPT ![workers[w].job.id].zip = zip_path]
          /\ IF zip_path
             THEN status' = "uploading" /\ Goto(w, "upload")
             ELSE status' = "error" /\ Return(w)
  /\ UNCHANGED <<processing_queue, start_order, ledgerVars>>
  /\ WorkFrame

\* uploader.upload_file
ProcUpload(w) ==
  /\ AtStage(w, "upload")
  /\ Called(w, "upload")
  /\ \/ Raised(w)
     \/ \E success \in BOOLEAN :
          /\ job_results' =
               [job_results EXCEPT ![workers[w].job.id].upload = success]
          /\ IF success
             THEN status' = "processing" /\ Goto(w, "share")
             ELSE status' = "error" /\ Return(w)
  /\ UNCHANGED <<processing_queue, start_order, ledgerVars>>
  /\ WorkFrame

\* Variant: a missing share link does not end the job.
share_failure_ignored(share_link) == FALSE

\* if not share_link
share_failed(share_link) == ~share_link

\* uploader.create_public_share
ProcShare(w) ==
  /\ AtStage(w, "share")
  /\ Called(w, "share")
  /\ \/ Raised(w)
     \/ \E share_link \in BOOLEAN :
          /\ job_results' =
               [job_results EXCEPT ![workers[w].job.id].share = share_link]
          /\ IF share_failed(share_link)
             THEN status' = "error" /\ Return(w)
             ELSE UNCHANGED status /\ Goto(w, "recipient")
  /\ UNCHANGED <<processing_queue, start_order, ledgerVars>>
  /\ WorkFrame

\* Variant: a missing address does not end the job.
recipient_never_missing(email_address) == FALSE

\* if not email_address
recipient_missing(email_address) == ~email_address

\* _get_email_address (it returns None on its own errors)
ProcRecipient(w) ==
  /\ AtStage(w, "recipient")
  /\ Called(w, "recipient")
  /\ \E email_address \in BOOLEAN :
       /\ job_results' =
            [job_results EXCEPT ![workers[w].job.id].email = email_address]
       /\ IF recipient_missing(email_address)
          THEN status' = "warning" /\ Return(w)
          ELSE status' = "processing" /\ Goto(w, "notify")
  /\ UNCHANGED <<processing_queue, start_order, ledgerVars>>
  /\ WorkFrame

\* Variant: the artifact is registered whatever the notifier answered.
schedules_always(email_sent) == TRUE

\* if email_sent: the branch that registers the artifact for cleanup.
schedules_cleanup(email_sent) == email_sent

\* notifier.send_notification
ProcNotify(w) ==
  /\ AtStage(w, "notify")
  /\ Called(w, "notify")
  /\ \/ Raised(w)
     \/ \E email_sent \in BOOLEAN :
          /\ job_results' =
               [job_results EXCEPT ![workers[w].job.id].sent = email_sent]
          /\ status' = IF email_sent THEN "success" ELSE "error"
          /\ IF schedules_cleanup(email_sent)
             THEN Goto(w, "schedule")
             ELSE Return(w)
  /\ UNCHANGED <<processing_queue, start_order, ledgerVars>>
  /\ WorkFrame

\* upload_result['remote_path'] of a job.
remote_path(id) == <<"upload", id>>

\* The cleanup_item dictionary of schedule_deletion / add_manual_cleanup.
new_item(file_path, download_link, upload_time, delete_after_days) ==
  [file_path |-> file_path,
   download_link |-> download_link,
   upload_time |-> upload_time,
   filename |-> basename(file_path),
   delete_after_days |-> delete_after_days]

\* save_cleanup_schedule run in one piece on the ledger `schedule'.
save_cleanup_schedule(schedule, outcome) ==
  /\ ledger_file' =
       written_file(ledger_file, schedule_data_of(schedule), outcome)
  /\ write_state' = IF outcome = "ok" THEN "ok" ELSE "failed"
  /\ last_written' = IF outcome = "ok" THEN schedule ELSE <<>>

\* CleanupScheduler.schedule_deletion(remote_path, share_link): the entry is
\* appended with the configured retention and the time of the call, then
\* the ledger is saved.
schedule_deletion(file_path, download_link, outcome) ==
  /\ cleanup_schedule' = Append(cleanup_schedule,
        new_item(file_path, download_link, now, auto_delete_days))
  /\ registered' = registered + 1
  /\ fresh_load' = FALSE
  /\ save_cleanup_schedule(cleanup_schedule', outcome)

\* The last stage of the pipeline; the write of the ledger succeeds here
\* (its failures are part of SpecLedger).
ProcSchedule(w) ==
  /\ AtStage(w, "schedule")
  /\ Called(w, "schedule")
  /\ schedule_deletion(remote_path(workers[w].job.id),
                       job_results[workers[w].job.id].share, "ok")
  /\ Return(w)
  /\ UNCHANGED <<processing_queue, status, job_results, start_order,
                 auto_delete_days, now, local_files, lthreads, sweep_log,
                 failed_before, returned>>
  /\ WorkFrame

WorkerStep(w) ==
  \/ WorkerCheck(w)
  \/ WorkerGet(w)
  \/ ProcMount(w)
  \/ ProcScan(w)
  \/ ProcArchive(w)
  \/ ProcUpload(w)
  \/ ProcShare(w)
  \/ ProcRecipient(w)
  \/ ProcNotify(w)
  \/ ProcSchedule(w)

Snapshots == {Info(d, mp) : d \in Devices, mp \in BOOLEAN}

InitWork == Init /\ attached = {} /\ ~use_pyudev

NextWork ==
  \/ ServiceStart
  \/ ServiceStop
  \/ \E device_info \in Snapshots : MonitorInsertCallback(device_info)
  \/ \E w \in 1..MaxStarts : WorkerCheck(w)
  \/ \E w \in 1..MaxStarts : WorkerGet(w)
  \/ \E w \in 1..MaxStarts : ProcMount(w)
  \/ \E w \in 1..MaxStarts : ProcScan(w)
  \/ \E w \in 1..MaxStarts : ProcArchive(w)
  \/ \E w \in 1..MaxStarts : ProcUpload(w)
  \/ \E w \in 1..MaxStarts : ProcShare(w)
  \/ \E w \in 1..MaxStarts : ProcRecipient(w)
  \/ \E w \in 1..MaxStarts : ProcNotify(w)
  \/ \E w \in 1..MaxStarts : ProcSchedule(w)

SpecWork == InitWork /\ [][NextWork]_vars

FairSpecWork == SpecWork /\ \A w \in 1..MaxStarts : WF_vars(WorkerStep(w))

\* ------------------------------------------- event loop and worker together
InitPlug == Init /\ attached = {} /\ use_pyudev

\* Devices are plugged in and mounted while the service runs with the event
\* loop: the monitor thread calls on_usb_inserted itself and the worker
\* processes what it enqueued.
NextPlug ==
  \/ \E d \in Devices : Attach(d)
  \/ \E d \in Devices : Mount(d)
  \/ ServiceStart
  \/ \E d \in Devices : UdevAdd(d)
  \/ DeviceInsertedVerify
  \/ \E w \in 1..MaxStarts : WorkerCheck(w)
  \/ \E w \in 1..MaxStarts : WorkerGet(w)
  \/ \E w \in 1..MaxStarts : ProcMount(w)
  \/ \E w \in 1..MaxStarts : ProcScan(w)
  \/ \E w \in 1..MaxStarts : ProcArchive(w)
  \/ \E w \in 1..MaxStarts : ProcUpload(w)
  \/ \E w \in 1..MaxStarts : ProcShare(w)
  \/ \E w \in 1..MaxStarts : ProcRecipient(w)
  \/ \E w \in 1..MaxStarts : ProcNotify(w)
  \/ \E w \in 1..MaxStarts : ProcSchedule(w)

SpecPlug == InitPlug /\ [][NextPlug]_vars

\* ==================================================== CleanupScheduler
LedgerFrame ==
  UNCHANGED <<envVars, monVars, cbVars, svcVars, processing_queue, status,
              jobVars, auto_delete_days, extVars>>

\* No other thread is inside a ledger operation.
Exclusive(t) == \A u \in LThreads \ {t} : lthreads[u].pc = "idle"

\* The operation of thread t goes on into save_cleanup_schedule.
begin_save(t, op) ==
  lthreads' = [lthreads EXCEPT ![t] =
     [pc |-> "save_read", op |-> op, before |-> cleanup_schedule,
      schedule_data |-> <<>>, saved |-> <<>>]]

\* The ledger as loaded stays untouched by a step that removes nothing.
keeps_fresh ==
  fresh_load' = (fresh_load /\ cleanup_schedule' = cleanup_schedule)

\* schedule_deletion, as called by the processing worker: the append.
ScheduleDeletionAppend(file_path) ==
  /\ lthreads["worker"].pc = "idle"
  /\ registered < MaxEntries
  /\ cleanup_schedule' = Append(cleanup_schedule,
        new_item(file_path, <<"share", basename(file_path)>>, now,
                 auto_delete_days))
  /\ registered' = registered + 1
  /\ begin_save("worker", "schedule_deletion")
  /\ fresh_load' = FALSE
  /\ sweep_log' = NoSweep
  /\ returned' = NoReturn
  /\ UNCHANGED <<ledger_file, now, local_files, write_state,
                 last_written, failed_before>>
  /\ LedgerFrame

\* add_manual_cleanup: the append, with the given retention or, for None,
\* the configured one.
AddManualCleanupAppend(file_path, delete_after_days) ==
  /\ lthreads["manual"].pc = "idle"
  /\ registered < MaxEntries
  /\ cleanup_schedule' = Append(cleanup_schedule,
        new_item(file_path, <<"share", basename(file_path)>>, now,
                 delete_after_days))
  /\ registered' = registered + 1
  /\ begin_save("manual", "add_manual_cleanup")
  /\ fresh_load' = FALSE
  /\ sweep_log' = NoSweep
  /\ returned' = NoReturn
  /\ UNCHANGED <<ledger_file, now, local_files, write_state,
                 last_written, failed_before>>
  /\ LedgerFrame

\* The entries of `failed' that the ledger still lists.
still_listed(schedule, failed) ==
  {item \in failed : \E i \in DOMAIN schedule : schedule[i] = item}

\* list.remove(item): the first element equal to item is taken out.
list_remove(schedule, item) ==
  LET k == CHOOSE k \in 1..Len(schedule) :
             /\ schedule[k] = item
             /\ \A m \in 1..(k - 1) : schedule[m] # item
  IN [m \in 1..(Len(schedule) - 1) |->
        IF m < k THEN schedule[m] ELSE schedule[m + 1]]

RECURSIVE remove_all(_, _)
\* for item in items_to_remove: self.cleanup_schedule.remove(item)
remove_all(schedule, items) ==
  IF items = <<>>
  THEN schedule
  ELSE remove_all(list_remove(schedule, Head(items)), Tail(items))

\* Variant: only the first entry of that name is selected.
first_named_item(schedule, filename) ==
  LET all == SelectSeq(schedule, LAMBDA item : item.filename = filename)
  IN IF all = <<>> THEN <<>> ELSE <<Head(all)>>

\* [item for item in self.cleanup_schedule if item['filename'] == filename]
named_items(schedule, filename) ==
  SelectSeq(schedule, LAMBDA item : item.filename = filename)

\* remove_from_schedule(filename): the entries of that name are taken out;
\* the ledger is saved when there was one, else the call returns False.
RemoveFromSchedule(filename) ==
  /\ lthreads["manual"].pc = "idle"
  /\ LET named == named_items(cleanup_schedule, filename)
     IN /\ cleanup_schedule' = remove_all(cleanup_schedule, named)
        /\ IF named # <<>>
           THEN begin_save("manual", "remove_from_schedule")
           ELSE UNCHANGED lthreads
        /\ returned' = [op |-> "remove_from_schedule", arg |-> filename,
                        value |-> named # <<>>]
  /\ keeps_fresh
  /\ sweep_log' = NoSweep
  /\ failed_before' = still_listed(cleanup_schedule', failed_before)
  /\ UNCHANGED <<ledger_file, now, local_files, registered, write_state,
                 last_written>>
  /\ LedgerFrame

\* What os.remove and the uploader's delete_file answer for one entry.
Answers == [os_remove : BOOLEAN, cloud_deleted : BOOLEAN]

NoAnswer == [os_remove |-> TRUE, cloud_deleted |-> TRUE]

\* Variant: a local file that is not there counts as a failed deletion.
local_missing_fails(found, os_remove) == found /\ os_remove

\* if os.path.exists(file_path): os.remove(file_path); a raise clears success.
local_step_ok(found, os_remove) == ~found \/ os_remove

\* Variant: the result is the answer of the remote deletion alone.
delete_success_remote_only(local_ok, cloud_deleted) == cloud_deleted

\* success stays True only if the local step did not raise and the uploader
\* returned True.
delete_success(local_ok, cloud_deleted) == local_ok /\ cloud_deleted

\* delete_file(cleanup_item): the local files afterwards and what happened.
delete_file(item, answer, local) ==
  LET found == item.file_path \in local
      local_ok == local_step_ok(found, answer.os_remove)
  IN [local |-> IF found /\ answer.os_remove
                THEN local \ {item.file_path}
                ELSE local,
      outcome |-> [attempted |-> TRUE,
                   found |-> found,
                   removed |-> found /\ answer.os_remove,
                   local_ok |-> local_ok,
                   cloud_deleted |-> answer.cloud_deleted,
                   success |-> delete_success(local_ok,
                                              answer.cloud_deleted)]]

NotAttempted == [attempted |-> FALSE, found |-> FALSE, removed |-> FALSE,
                 local_ok |-> FALSE, cloud_deleted |-> FALSE,
                 success |-> FALSE]

RECURSIVE run_deletes(_, _, _, _, _)
\* The loop over the entries: delete_file for each entry of `todo', in
\* order; acc collects the local files, the outcomes and the entries whose
\* deletion succeeded.
run_deletes(i, items, todo, answers, acc) ==
  IF i > Len(items)
  THEN acc
  ELSE IF ~todo[i]
  THEN run_deletes(i + 1, items, todo, answers,
         [acc EXCEPT !.outcomes = Append(@, NotAttempted)])
  ELSE LET r == delete_file(items[i], answers[i], acc.local)
       IN run_deletes(i + 1, items, todo, answers,
            [local |-> r.local,
             outcomes |-> Append(acc.outcomes, r.outcome),
             deleted |-> IF r.outcome.success
                         THEN Append(acc.deleted, items[i])
                         ELSE acc.deleted])

\* The answers of the collaborators for the entries of `todo'.
AnswersFor(todo) ==
  {answers \in [DOMAIN todo -> Answers] :
     \A i \in DOMAIN todo : ~todo[i] => answers[i] = NoAnswer}

\* (current_time - item['upload_time']).days
days_since_upload(item, current_time) ==
  (current_time - item.upload_time) \div UnitsPerDay

\* Variant: the entry is due only after the retention period is exceeded.
is_due_strict(item, current_time) ==
  days_since_upload(item, current_time) > item.delete_after_days

\* if days_since_upload >= item['delete_after_days']
is_due(item, current_time) ==
  days_since_upload(item, current_time) >= item.delete_after_days

\* Variant: the sweep leaves the file as it is.
sweep_never_saves(removed) == FALSE

\* if items_to_remove: self.save_cleanup_schedule()
sweep_saves(removed) == removed # <<>>

\* check_and_cleanup up to its save: every due entry is handed to
\* delete_file, the entries whose deletion succeeded are removed.
CheckAndCleanup ==
  /\ lthreads["daemon"].pc = "idle"
  /\ LET current_time == now
         todo == [i \in DOMAIN cleanup_schedule |->
                    is_due(cleanup_schedule[i], current_time)]
     IN \E answers \in AnswersFor(todo) :
          LET run == run_deletes(1, cleanup_schedule, todo, answers,
                       [local |-> local_files, outcomes |-> <<>>,
                        deleted |-> <<>>])
          IN /\ cleanup_schedule' = remove_all(cleanup_schedule,
                                               run.deleted)
             /\ local_files' = run.local
             /\ sweep_log' =
                  [ran |-> TRUE, outcomes |-> run.outcomes,
                   retried |-> {i \in DOMAIN cleanup_schedule :
                                  cleanup_schedule[i] \in failed_before}]
             /\ failed_before' = still_listed(cleanup_schedule',
                  failed_before \cup
                    {cleanup_schedule[i] : i \in
                       {k \in DOMAIN cleanup_schedule :
                          run.outcomes[k].attempted
                            /\ ~run.outcomes[k].success}})
             /\ IF sweep_saves(run.deleted)
                THEN begin_save("daemon", "sweep")
                ELSE UNCHANGED lthreads
  /\ returned' = NoReturn
  /\ keeps_fresh
  /\ UNCHANGED <<ledger_file, now, registered, write_state,
                 last_written>>
  /\ LedgerFrame

\* item['upload_time'].strftime('%Y-%m-%d %H:%M:%S'): the whole seconds.
strftime_seconds(dt) == dt \div MicrosPerSecond

\* The item_status of one entry.
item_status(item, current_time) ==
  [filename |-> item.filename,
   upload_time |-> strftime_seconds(item.upload_time),
   days_since_upload |-> days_since_upload(item, current_time),
   days_until_deletion |->
     item.delete_after_days - days_since_upload(item, current_time)]

\* Variant: an entry with no day left is still listed as pending.
listed_expired_late(days_until_deletion) == days_until_deletion < 0

\* if days_until_deletion <= 0: expired_items, else pending_cleanup
listed_expired(days_until_deletion) == days_until_deletion <= 0

\* The dictionary get_cleanup_status builds from the ledger.
get_cleanup_status(schedule, current_time) ==
  LET all == [i \in DOMAIN schedule |-> item_status(schedule[i], current_time)]
  IN [total_scheduled |-> Len(schedule),
      pending_cleanup |->
        SelectSeq(all, LAMBDA st : ~listed_expired(st.days_until_deletion)),
      expired_items |->
        SelectSeq(all, LAMBDA st : listed_expired(st.days_until_deletion))]

\* get_cleanup_status(): the query, as called from the manual context.
GetCleanupStatus ==
  /\ lthreads["manual"].pc = "idle"
  /\ returned' = [op |-> "get_cleanup_status", arg |-> "",
                  value |-> get_cleanup_status(cleanup_schedule, now)]
  /\ sweep_log' = NoSweep
  /\ UNCHANGED <<cleanup_schedule, ledger_file, now, local_files, lthreads,
                 registered, fresh_load, write_state, last_written,
                 failed_before>>
  /\ LedgerFrame

FileNames == {basename(path) : path \in LocalPaths}

\* Variant: the number of entries the ledger still holds is returned.
cleaned_count_is_rest(deleted) == Len(cleanup_schedule) - Len(deleted)

\* cleaned_count += 1 for every entry whose deletion succeeded.
cleaned_count(deleted) == Len(deleted)

\* force_cleanup(filename): the entries of that name, or all of them for a
\* false filename, are handed to delete_file and removed on success; the
\* ledger is saved when at least one was removed.  `observed' tells whether
\* the outcomes of the deletions are kept in sweep_log.
ForceCleanupCall(filename, observed) ==
  /\ lthreads["manual"].pc = "idle"
  /\ LET todo == [i \in DOMAIN cleanup_schedule |->
                    filename = "" \/ cleanup_schedule[i].filename = filename]
     IN \E answers \in AnswersFor(todo) :
          LET run == run_deletes(1, cleanup_schedule, todo, answers,
                       [local |-> local_files, outcomes |-> <<>>,
                        deleted |-> <<>>])
          IN /\ cleanup_schedule' = remove_all(cleanup_schedule, run.deleted)
             /\ local_files' = run.local
             /\ IF Len(run.deleted) > 0
                THEN begin_save("manual", "force_cleanup")
                ELSE UNCHANGED lthreads
             /\ returned' = [op |-> "force_cleanup", arg |-> filename,
                             value |-> cleaned_count(run.deleted)]
             /\ sweep_log' = IF observed
                              THEN [ran |-> FALSE, outcomes |-> run.outcomes,
                                    retried |-> {}]
                              ELSE NoSweep
  /\ keeps_fresh
  /\ failed_before' = still_listed(cleanup_schedule', failed_before)
  /\ UNCHANGED <<ledger_file, now, registered, write_state,
                 last_written>>
  /\ LedgerFrame

ForceCleanup(filename) == ForceCleanupCall(filename, FALSE)

\* The same call with the outcomes of its deletions kept for inspection.
ForceCleanupObserved(filename) == ForceCleanupCall(filename, TRUE)

\* save_cleanup_schedule, first half: the loop that copies the entries and
\* turns their timestamps into strings.
SaveRead(t) ==
  /\ lthreads[t].pc = "save_read"
  /\ lthreads' = [lthreads EXCEPT
        ![t].pc = "save_write",
        ![t].schedule_data = schedule_data_of(cleanup_schedule),
        ![t].saved = cleanup_schedule]
  /\ sweep_log' = NoSweep
  /\ returned' = NoReturn
  /\ UNCHANGED <<cleanup_schedule, ledger_file, now, local_files, registered,
                 fresh_load, write_state, last_written,
                 failed_before>>
  /\ LedgerFrame

\* save_cleanup_schedule, second half: open(path, 'w') and json.dump; the
\* operation of the thread is complete afterwards.
SaveWrite(t, outcome) ==
  /\ lthreads[t].pc = "save_write"
  /\ ledger_file' =
       written_file(ledger_file, lthreads[t].schedule_data, outcome)
  /\ write_state' = IF outcome = "ok" THEN "ok" ELSE "failed"
  /\ last_written' = IF outcome = "ok" THEN lthreads[t].saved ELSE <<>>
  /\ lthreads' = [lthreads EXCEPT ![t] = Idle]
  /\ fresh_load' = FALSE
  /\ sweep_log' = NoSweep
  /\ returned' = NoReturn
  /\ UNCHANGED <<cleanup_schedule, now, local_files, registered,
                 failed_before>>
  /\ LedgerFrame

\* The program is killed at this point and started again: every thread is
\* gone and __init__ loads the ledger from the file.
Restart ==
  /\ cleanup_schedule' = load_cleanup_schedule(ledger_file)
  /\ lthreads' = [t \in LThreads |-> Idle]
  /\ fresh_load' = TRUE
  /\ sweep_log' = NoSweep
  /\ returned' = NoReturn
  /\ failed_before' = still_listed(cleanup_schedule', failed_before)
  /\ UNCHANGED <<ledger_file, now, local_files, registered, write_state,
                 last_written>>
  /\ LedgerFrame

\* The clock advances by one unit.
Tick ==
  /\ now < MaxTime
  /\ now' = now + 1
  /\ sweep_log' = NoSweep
  /\ returned' = NoReturn
  /\ UNCHANGED <<cleanup_schedule, ledger_file, local_files, lthreads,
                 registered, fresh_load, write_state, last_written,
                 failed_before>>
  /\ LedgerFrame

\* Ledger files of an earlier run: a valid entry, and an entry whose
\* timestamp fromisoformat rejects.
OldItem ==
  [file_path |-> OldPath, download_link |-> <<"share", "a.zip">>,
   upload_time |-> <<0, 1>>, filename |-> "a.zip", delete_after_days |-> 1]

BadItem ==
  [file_path |-> <<"out", "b.zip">>, download_link |-> <<"share", "b.zip">>,
   upload_time |-> <<>>, filename |-> "b.zip", delete_after_days |-> 1]

\* A second entry of the same display name, for a file of another directory
\* that is no longer there.
TwinItem ==
  [file_path |-> <<"tmp", "a.zip">>, download_link |-> <<"share", "a.zip">>,
   upload_time |-> <<1, 0>>, filename |-> "a.zip", delete_after_days |-> 2]

InitialFiles ==
  {NoFile,
   [state |-> "ok", data |-> <<OldItem>>],
   [state |-> "ok", data |-> <<OldItem, TwinItem>>],
   [state |-> "ok", data |-> <<OldItem, BadItem>>]}

\* The ledger specifications start with the local copies present and one
\* of the ledger files.
InitCleanup ==
  /\ InitService
  /\ attached = {}
  /\ ~use_pyudev
  /\ auto_delete_days \in AutoDeleteChoices
  /\ local_files = LocalPaths
  /\ \E file \in InitialFiles : CleanupScheduler_init(file)

InitLedger == InitCleanup /\ now \in 0..(MicrosPerSecond - 1)

\* The operations of the three threads, one operation at a time, with the
\* failures of the write and the restart of the program; the clock stands
\* still.
NextLedger ==
  \/ \E path \in FilePaths :
       Exclusive("worker") /\ ScheduleDeletionAppend(path)
  \/ \E path \in FilePaths, days \in ManualDays \cup {auto_delete_days} :
       Exclusive("manual") /\ AddManualCleanupAppend(path, days)
  \/ \E filename \in FileNames :
       Exclusive("manual") /\ RemoveFromSchedule(filename)
  \/ \E filename \in FileNames \cup {""} :
       Exclusive("manual") /\ ForceCleanup(filename)
  \/ Exclusive("daemon") /\ CheckAndCleanup
  \/ \E t \in LThreads : SaveRead(t)
  \/ \E t \in LThreads, outcome \in WriteOutcomes : SaveWrite(t, outcome)
  \/ Restart

SpecLedger == InitLedger /\ [][NextLedger]_vars

\* The registrations and the forced cleanups, one operation at a time, with
\* the failures of the write; the clock stands still.
NextForce ==
  \/ \E path \in FilePaths :
       Exclusive("worker") /\ ScheduleDeletionAppend(path)
  \/ \E filename \in FileNames \cup {""} :
       Exclusive("manual") /\ ForceCleanupObserved(filename)
  \/ \E t \in LThreads : SaveRead(t)
  \/ \E t \in LThreads, outcome \in WriteOutcomes : SaveWrite(t, outcome)

SpecForce == InitLedger /\ [][NextForce]_vars

InitSweep == InitCleanup /\ now = 0

\* The registrations of the worker and the sweeps as the clock advances, one
\* operation at a time, with the failures of the write.
NextUnsaved ==
  \/ \E path \in FilePaths :
       Exclusive("worker") /\ ScheduleDeletionAppend(path)
  \/ Exclusive("daemon") /\ CheckAndCleanup
  \/ \E t \in LThreads : SaveRead(t)
  \/ \E t \in LThreads, outcome \in WriteOutcomes : SaveWrite(t, outcome)
  \/ Tick

SpecUnsaved == InitSweep /\ [][NextUnsaved]_vars

\* The registrations and the sweeps of the cleanup thread as the clock
\* advances, one operation at a time; the writes succeed (their failures are
\* part of SpecLedger).
NextSweep ==
  \/ \E path \in FilePaths :
       Exclusive("worker") /\ ScheduleDeletionAppend(path)
  \/ \E path \in FilePaths, days \in ManualDays \cup {auto_delete_days} :
       Exclusive("manual") /\ AddManualCleanupAppend(path, days)
  \/ Exclusive("daemon") /\ CheckAndCleanup
  \/ Exclusive("manual") /\ GetCleanupStatus
  \/ \E t \in LThreads : SaveRead(t)
  \/ \E t \in LThreads : SaveWrite(t, "ok")
  \/ Tick

SpecSweep == InitSweep /\ [][NextSweep]_vars

\* The operations of the ledger with the threads interleaved at their steps,
\* the clock standing still.
NextLedgerThreads ==
  \/ \E path \in FilePaths : ScheduleDeletionAppend(path)
  \/ \E path \in FilePaths, days \in ManualDays \cup {auto_delete_days} :
       AddManualCleanupAppend(path, days)
  \/ \E filename \in FileNames : RemoveFromSchedule(filename)
  \/ \E filename \in FileNames \cup {""} : ForceCleanup(filename)
  \/ CheckAndCleanup
  \/ \E t \in LThreads : SaveRead(t)
  \/ \E t \in LThreads, outcome \in WriteOutcomes : SaveWrite(t, outcome)

SpecLedgerThreads == InitLedger /\ [][NextLedgerThreads]_vars

\* =================================================== claims, device monitor

\* C3: the insert callback fires at most once per contiguous interval in which
\* the device is present and verified, under either strategy: while a path
\* whose callback already fired has stayed attached and mounted, no step
\* invokes the insert callback for it again.
C3_NoSecondInsertWhileVerified ==
  [][\A d \in Devices :
       d \in verified => insert_calls'[d] = insert_calls[d]]_vars

\* C4: the removal callback fires at most once per contiguous interval in
\* which the device is absent: once it fired for a detached path, no removal
\* signal and no poll cycle fires it again before the path is attached again.
C4_AtMostOneRemovalPerAbsence ==
  [][\A d \in Devices :
       (d \notin attached /\ d \in rm_in_absence)
          => remove_calls'[d] = remove_calls[d]]_vars

\* C4 witness: a detached path whose removal callback fired and for which a
\* further removal signal was handled without a callback.
C4_Witness ==
  \E d \in Devices :
    /\ d \notin attached
    /\ d \in rm_in_absence
    /\ d \in ignored_removals
    /\ remove_calls[d] = 1

\* C5: a candidate insert whose device the re-verification after the grace
\* period does not find mounted produces no insert callback and no job: the
\* step that ends the grace period leaves the callback counts and the work
\* queue as they were.
C5_UnverifiedNeverCallsBack ==
  [][(mon_pc = "grace" /\ mon_pc' # "grace"
        /\ ~is_device_mounted(mon_pending.device))
       => (insert_calls' = insert_calls
             /\ processing_queue' = processing_queue
             /\ job_trace' = job_trace)]_vars

\* C5 witness: a tracked path whose verification failed, with no callback and
\* no job ever produced for it.
C5_Witness ==
  \E d \in Devices :
    /\ d \in unverified
    /\ d \in known_devices
    /\ insert_calls[d] = 0
    /\ processing_queue = <<>>

\* C6: in polling mode a device that stays attached and mounted after its
\* insert callback produces no removal callback and no further insert
\* callback, whatever the poll cycles (failed enumerations included).
C6_PollingExactlyOncePerTransition ==
  [][\A d \in Devices :
       (mon_mode = "polling" /\ d \in verified)
          => (insert_calls'[d] = insert_calls[d]
                /\ remove_calls'[d] = remove_calls[d])]_vars

\* C7: in polling mode a device that from some point on stays attached,
\* listed and mounted (and was not already recorded by the initial scan)
\* eventually has produced an insert callback since its attachment.
C7_PollingSelfHeals ==
  \A d \in Devices :
    <>[](mon_mode = "polling" /\ mon_running /\ ~enum_fails
           /\ d \in mounted /\ d \notin scanned)
      => <>[](d \in ins_since_attach)

\* ===================================================== the cleanup thread
DaemonFrame ==
  UNCHANGED <<envVars, monVars, cbVars, svcVars, processing_queue, status,
              jobVars, auto_delete_days, statVars, callback_errors,
              mon_old>>

\* The ledger variables a step of the loop outside the sweep leaves alone.
DaemonLedgerFrame ==
  UNCHANGED <<cleanup_schedule, ledger_file, now, local_files, lthreads,
              registered, fresh_load, write_state, last_written, sweep_log,
              failed_before, returned>>

\* A second has passed: it is counted when the flag was already cleared.
second_passed ==
  late_ticks' = IF cleanup_running THEN late_ticks ELSE late_ticks + 1

\* while self.running
DaemonLoopTest ==
  /\ cleanup_pc = "loop"
  /\ cleanup_pc' = IF cleanup_running THEN "sweep" ELSE "exited"
  /\ UNCHANGED <<cleanup_running, sleep_left, items_to_remove, late_ticks>>
  /\ DaemonLedgerFrame
  /\ DaemonFrame

\* check_and_cleanup, the loop over the entries: every due entry is handed
\* to delete_file, those deleted are collected in items_to_remove.
DaemonSweepSelect ==
  /\ cleanup_pc = "sweep"
  /\ LET current_time == now
         todo == [i \in DOMAIN cleanup_schedule |->
                    is_due(cleanup_schedule[i], current_time)]
     IN \E answers \in AnswersFor(todo) :
          LET run == run_deletes(1, cleanup_schedule, todo, answers,
                       [local |-> local_files, outcomes |-> <<>>,
                        deleted |-> <<>>])
          IN /\ local_files' = run.local
             /\ items_to_remove' = run.deleted
  /\ cleanup_pc' = "remove"
  /\ sweep_log' = NoSweep
  /\ returned' = NoReturn
  /\ UNCHANGED <<cleanup_schedule, ledger_file, now, lthreads, registered,
                 fresh_load, write_state, last_written, failed_before>>
  /\ UNCHANGED <<cleanup_running, sleep_left, late_ticks>>
  /\ DaemonFrame

RECURSIVE remove_each(_, _)
\* for item in items_to_remove: self.cleanup_schedule.remove(item); remove
\* raises ValueError for an item that is no longer in the list.
remove_each(schedule, items) ==
  IF items = <<>>
  THEN [schedule |-> schedule, raised |-> FALSE]
  ELSE IF \E k \in DOMAIN schedule : schedule[k] = Head(items)
  THEN remove_each(list_remove(schedule, Head(items)), Tail(items))
  ELSE [schedule |-> schedule, raised |-> TRUE]

\* except Exception: time.sleep(60)
error_wait == [pc |-> "error_sleep", seconds |-> ErrorSleepSeconds]

\* check_and_cleanup, the removal of the collected entries and the save;
\* an exception ends the sweep in the handler of _cleanup_daemon.
DaemonSweepRemove ==
  /\ cleanup_pc = "remove"
  /\ lthreads["daemon"].pc = "idle"
  /\ LET r == remove_each(cleanup_schedule, items_to_remove)
     IN /\ cleanup_schedule' = r.schedule
        /\ IF r.raised
           THEN /\ cleanup_pc' = error_wait.pc
                /\ sleep_left' = error_wait.seconds
                /\ UNCHANGED lthreads
           ELSE IF sweep_saves(items_to_remove)
           THEN /\ begin_save("daemon", "sweep")
                /\ cleanup_pc' = "save"
                /\ UNCHANGED sleep_left
           ELSE /\ cleanup_pc' = "sleep"
                /\ sleep_left' = IntervalSeconds
                /\ UNCHANGED lthreads
  /\ items_to_remove' = <<>>
  /\ keeps_fresh
  /\ sweep_log' = NoSweep
  /\ returned' = NoReturn
  /\ failed_before' = still_listed(cleanup_schedule', failed_before)
  /\ UNCHANGED <<ledger_file, now, local_files, registered, write_state,
                 last_written>>
  /\ UNCHANGED <<cleanup_running, late_ticks>>
  /\ DaemonFrame

\* The save of the sweep is over: sleep_time is computed and the wait begins.
DaemonSaved ==
  /\ cleanup_pc = "save"
  /\ lthreads["daemon"].pc = "idle"
  /\ cleanup_pc' = "sleep"
  /\ sleep_left' = IntervalSeconds
  /\ UNCHANGED <<cleanup_running, items_to_remove, late_ticks>>
  /\ DaemonLedgerFrame
  /\ DaemonFrame

\* for _ in range(int(sleep_time)): if not self.running: break
DaemonSleepTest ==
  /\ cleanup_pc = "sleep"
  /\ cleanup_pc' = IF sleep_left = 0 \/ ~cleanup_running
                   THEN "loop" ELSE "sleeping"
  /\ UNCHANGED <<cleanup_running, sleep_left, items_to_remove, late_ticks>>
  /\ DaemonLedgerFrame
  /\ DaemonFrame

\* time.sleep(1)
DaemonSleepSecond ==
  /\ cleanup_pc = "sleeping"
  /\ cleanup_pc' = "sleep"
  /\ sleep_left' = sleep_left - 1
  /\ second_passed
  /\ UNCHANGED <<cleanup_running, items_to_remove>>
  /\ DaemonLedgerFrame
  /\ DaemonFrame

\* One second of the time.sleep(60) of the exception handler.
DaemonErrorSleepSecond ==
  /\ cleanup_pc = "error_sleep"
  /\ cleanup_pc' = IF sleep_left = 1 THEN "loop" ELSE "error_sleep"
  /\ sleep_left' = sleep_left - 1
  /\ second_passed
  /\ UNCHANGED <<cleanup_running, items_to_remove>>
  /\ DaemonLedgerFrame
  /\ DaemonFrame

\* The steps of the cleanup thread outside save_cleanup_schedule.
DaemonStep ==
  \/ DaemonLoopTest
  \/ DaemonSweepSelect
  \/ DaemonSweepRemove
  \/ DaemonSaved
  \/ DaemonSleepTest
  \/ DaemonSleepSecond
  \/ DaemonErrorSleepSecond

\* stop_cleanup_daemon: the flag is cleared; the join gives up after 5 s and
\* the caller goes on.
StopCleanupDaemon ==
  /\ cleanup_running
  /\ cleanup_running' = FALSE
  /\ UNCHANGED <<cleanup_pc, sleep_left, items_to_remove, late_ticks>>
  /\ DaemonLedgerFrame
  /\ DaemonFrame

\* The entries of the earlier run are due.
InitDaemon == InitCleanup /\ now = MaxTime

\* The cleanup thread, the manual removal that may run between the two
\* halves of a sweep, and the call that stops the thread.
NextDaemon ==
  \/ DaemonLoopTest
  \/ DaemonSweepSelect
  \/ DaemonSweepRemove
  \/ DaemonSaved
  \/ DaemonSleepTest
  \/ DaemonSleepSecond
  \/ DaemonErrorSleepSecond
  \/ StopCleanupDaemon
  \/ \E filename \in FileNames : RemoveFromSchedule(filename)
  \/ \E t \in LThreads : SaveRead(t)
  \/ \E t \in LThreads, outcome \in WriteOutcomes : SaveWrite(t, outcome)

SpecDaemon == InitDaemon /\ [][NextDaemon]_vars

\* ============================================== the three loops and stop()
\* The polling loop after its time.sleep(2): `while self.running' is false
\* and the thread ends.
MonitorLoopExit ==
  /\ mon_mode = "polling" /\ mon_pc = "wait" /\ ~mon_running
  /\ mon_pc' = "exited"
  /\ UNCHANGED <<mon_running, use_pyudev, mon_mode, known_devices,
                 device_info_cache, mon_pending, poll_current, poll_new>>
  /\ UNCHANGED <<cbVars, processing_queue, status, job_trace, job_results>>
  /\ MonFrame

\* The event loop is blocked in monitor.poll(): it tests the flag only when
\* the kernel delivers a next block-device event, and then breaks.
MonitorWakesAfterStop ==
  /\ mon_mode = "pyudev" /\ mon_pc = "wait" /\ ~mon_running
  /\ mon_pc' = "exited"
  /\ UNCHANGED <<mon_running, use_pyudev, mon_mode, known_devices,
                 device_info_cache, mon_pending, poll_current, poll_new>>
  /\ UNCHANGED <<cbVars, processing_queue, status, job_trace, job_results>>
  /\ MonFrame

InitStop == Init /\ attached = {}

\* start() and stop() of the service with its three background loops: the
\* monitor thread (its callbacks for one mounted device), the processing
\* worker and the cleanup thread spawned by CleanupScheduler.__init__.  The
\* clock stands still, so no entry comes due and the sweeps remove nothing.
NextStop ==
  \/ ServiceStart
  \/ ServiceStop
  \/ MonitorInsertCallback(Info("/dev/sdb1", TRUE))
  \/ \E w \in 1..MaxStarts : WorkerCheck(w)
  \/ \E w \in 1..MaxStarts : WorkerGet(w)
  \/ \E w \in 1..MaxStarts : ProcMount(w)
  \/ \E w \in 1..MaxStarts : ProcScan(w)
  \/ \E w \in 1..MaxStarts : ProcArchive(w)
  \/ \E w \in 1..MaxStarts : ProcUpload(w)
  \/ \E w \in 1..MaxStarts : ProcShare(w)
  \/ \E w \in 1..MaxStarts : ProcRecipient(w)
  \/ \E w \in 1..MaxStarts : ProcNotify(w)
  \/ \E w \in 1..MaxStarts : ProcSchedule(w)
  \/ MonitorLoopExit
  \/ MonitorWakesAfterStop
  \/ DaemonLoopTest
  \/ DaemonSweepSelect
  \/ DaemonSweepRemove
  \/ DaemonSleepTest
  \/ DaemonSleepSecond

SpecStop == InitStop /\ [][NextStop]_vars

\* The threads take their steps; the next device event of the event loop and
\* the calls of start() and stop() are up to the environment.
FairSpecStop ==
  /\ SpecStop
  /\ \A w \in 1..MaxStarts : WF_vars(WorkerStep(w))
  /\ WF_vars(MonitorLoopExit)
  /\ WF_vars(DaemonStep)

\* =========================================== start() and stop() of USBMonitor
\* The variables of the monitor that belong to one thread: the loop it runs
\* and its position, and the locals of _device_inserted and of a poll cycle.
thread_locals ==
  [mode |-> mon_mode, pc |-> mon_pc, pending |-> mon_pending,
   current |-> poll_current, new |-> poll_new]

RestartFrame ==
  UNCHANGED <<attached, mounted, enum_fails, svcVars, processing_queue,
              status, jobVars, ledgerVars, lifeVars, statVars,
              callback_errors>>

\* Variant: start() waits for the thread of the previous start() to end.
previous_loop_awaited == mon_pc \in {"none", "exited"}

\* The states of the previous thread in which start() is called here: there
\* is none, it has ended, or it is the event loop blocked in monitor.poll(),
\* which the join(timeout=5) of stop() has given up waiting for.  (A polling
\* loop ends within the join of stop().)
start_call_ready ==
  \/ mon_pc \in {"none", "exited"}
  \/ mon_mode = "pyudev" /\ mon_pc = "wait"

\* USBMonitor.start() on a monitor that is not running: the flag is set, the
\* devices are scanned and a new thread is spawned.  self.monitor_thread is
\* overwritten; a previous thread that has not ended goes on existing.
MonitorStartCall ==
  /\ EnvBudget
  /\ start_call_ready
  /\ USBMonitor_start
  /\ mon_old' = IF mon_pc \in {"none", "exited"}
                THEN mon_old
                ELSE Append(mon_old, thread_locals)
  /\ scanned' = get_usb_storage_devices
  /\ UNCHANGED <<insert_calls, remove_calls, verified, ins_since_attach,
                 rm_in_absence, unverified, ignored_removals, remove_arg>>
  /\ RestartFrame

\* USBMonitor.start() on a running monitor: a warning, nothing else.
MonitorStartWhileRunning ==
  /\ mon_running
  /\ EnvBudget
  /\ UNCHANGED <<monVars, cbVars, mon_old>>
  /\ RestartFrame

\* USBMonitor.stop() on a running monitor: the flag is cleared and the thread
\* joined for at most five seconds.
MonitorStopCall ==
  /\ mon_running
  /\ EnvBudget
  /\ mon_running' = FALSE
  /\ UNCHANGED <<use_pyudev, mon_mode, mon_pc, known_devices,
                 device_info_cache, mon_pending, poll_current, poll_new>>
  /\ UNCHANGED <<cbVars, mon_old>>
  /\ RestartFrame

\* The threads run the same code on the same object.  The steps of the
\* monitor above are those of the thread whose locals are in mon_mode ..
\* poll_new; this step puts another live thread in that place.
MonitorSwitch(i) ==
  /\ i \in DOMAIN mon_old
  /\ mon_old[i].pc # "exited"
  /\ mon_old' = [mon_old EXCEPT ![i] = thread_locals]
  /\ mon_mode' = mon_old[i].mode
  /\ mon_pc' = mon_old[i].pc
  /\ mon_pending' = mon_old[i].pending
  /\ poll_current' = mon_old[i].current
  /\ poll_new' = mon_old[i].new
  /\ UNCHANGED <<mon_running, use_pyudev, known_devices, device_info_cache,
                 env_steps>>
  /\ UNCHANGED cbVars
  /\ RestartFrame

InitRestart == Init /\ mounted # {}

\* The calls of start() and stop() on one monitor, devices being plugged in
\* and mounted, the udev events and the steps of the monitor's threads.
NextRestart ==
  \/ \E d \in Devices : Attach(d)
  \/ \E d \in Devices : Mount(d)
  \/ MonitorStartCall
  \/ MonitorStartWhileRunning
  \/ MonitorStopCall
  \/ \E i \in 1..MaxStarts : MonitorSwitch(i)
  \/ \E d \in Devices : UdevAdd(d)
  \/ \E d \in Devices : UdevRemove(d)
  \/ DeviceInsertedVerify
  \/ PollEnumerate
  \/ \E d \in Devices : PollInsert(d)
  \/ PollFinish
  \/ MonitorLoopExit
  \/ MonitorWakesAfterStop

SpecRestart == InitRestart /\ [][NextRestart]_vars

\* ======================================================== StatusManager
StatFrame ==
  UNCHANGED <<envVars, monVars, cbVars, svcVars, processing_queue, jobVars,
              ledgerVars, lifeVars, callback_errors, mon_old>>

MaxCalls(op) ==
  CASE op = "set_status" -> MaxStatusCalls
    [] op = "add_error" -> MaxErrorCalls
    [] op = "increment" -> MaxCountCalls

\* Calls of the operation made so far: applied, or in progress.
Issued(op) ==
  status_calls[op] + Cardinality({t \in StThreads : sthreads[t].op = op})

\* Variant: the block is entered whoever holds the lock.
lock_ignored == TRUE

\* with self.lock: the block is entered when no thread holds the lock.
lock_acquire_ready == status_lock = "free"

\* A thread calls set_status / add_error / increment_processing_count and
\* enters the locked block; the increment reads the counter.
StatusEnter(t, op, arg) ==
  /\ sthreads[t].pc = "idle"
  /\ Issued(op) < MaxCalls(op)
  /\ lock_acquire_ready
  /\ status_lock' = t
  /\ sthreads' = [sthreads EXCEPT ![t] =
        [pc |-> "locked", op |-> op, arg |-> arg, read |-> processing_count]]
  /\ UNCHANGED <<status, processing_count, errors, status_file, status_calls>>
  /\ StatFrame

\* Variant: the first 10 records are kept.
keep_first(errs) ==
  IF Len(errs) > MaxErrorsKept THEN SubSeq(errs, 1, MaxErrorsKept) ELSE errs

\* if len(errors) > 10: errors = errors[-10:]
keep_last(errs) ==
  IF Len(errs) > MaxErrorsKept
  THEN SubSeq(errs, Len(errs) - MaxErrorsKept + 1, Len(errs))
  ELSE errs

\* The error_entry of add_error; its timestamp is taken inside the lock and
\* is counted here by the number of the call.
error_entry(error_message) ==
  [timestamp |-> status_calls.add_error + 1, message |-> error_message]

\* The mutation of current_status inside the locked block.
StatusUpdate(t) ==
  /\ sthreads[t].pc = "locked"
  /\ status' = IF sthreads[t].op = "set_status"
               THEN sthreads[t].arg ELSE status
  /\ errors' = IF sthreads[t].op = "add_error"
               THEN keep_last(Append(errors, error_entry(sthreads[t].arg)))
               ELSE errors
  /\ processing_count' = IF sthreads[t].op = "increment"
                         THEN sthreads[t].read + 1 ELSE processing_count
  /\ status_calls' = [status_calls EXCEPT ![sthreads[t].op] = @ + 1]
  /\ sthreads' = [sthreads EXCEPT ![t].pc = "save"]
  /\ UNCHANGED <<status_file, status_lock>>
  /\ StatFrame

\* _save_status at the end of the locked block: current_status is written,
\* an exception of the write is logged and swallowed; the lock is released.
StatusSave(t, outcome) ==
  /\ sthreads[t].pc = "save"
  /\ status_file' = written_file(status_file,
        status_record(status, processing_count, errors), outcome)
  /\ status_calls' = [status_calls EXCEPT !.write =
        IF outcome = "ok" THEN "ok" ELSE "failed"]
  /\ status_lock' = "free"
  /\ sthreads' = [sthreads EXCEPT ![t] = StIdle]
  /\ UNCHANGED <<status, processing_count, errors>>
  /\ StatFrame

\* The mutations of the status from the three execution contexts.
NextStatus ==
  \/ \E t \in StThreads, phase \in Phases : StatusEnter(t, "set_status", phase)
  \/ \E t \in StThreads, m \in ErrorMessages : StatusEnter(t, "add_error", m)
  \/ \E t \in StThreads : StatusEnter(t, "increment", "")
  \/ \E t \in StThreads : StatusUpdate(t)
  \/ \E t \in StThreads, outcome \in WriteOutcomes : StatusSave(t, outcome)

SpecStatus == Init /\ [][NextStatus]_vars

\* ================================================ claims, worker pipeline
Jobs == 1..Len(job_trace)

LaterStages == {"archive", "upload", "share", "recipient", "notify",
                "schedule"}

StagesOf(j) == {job_trace[j][i] : i \in 1..Len(job_trace[j])}

LedgerEntriesOf(j) ==
  {i \in 1..Len(cleanup_schedule) :
     cleanup_schedule[i].file_path = remote_path(j)}

\* Every collaborator of the job answered with success.
AllStagesSucceeded(j) ==
  /\ job_results[j].mount_ok
  /\ job_results[j].infected = 0
  /\ job_results[j].safe > 0
  /\ job_results[j].zip
  /\ job_results[j].upload
  /\ job_results[j].share
  /\ job_results[j].email
  /\ job_results[j].sent

\* C1: for a job whose scan lists an infected file, none of archive, upload,
\* share link, recipient, notification or schedule_deletion is invoked and
\* the ledger holds no entry of it, however many safe files the scan lists.
C1_InfectedStopsPipeline ==
  \A j \in Jobs :
    job_results[j].infected > 0 =>
      /\ StagesOf(j) \cap LaterStages = {}
      /\ LedgerEntriesOf(j) = {}

\* C1 witness: a finished job whose scan listed an infected file and a safe
\* file.
C1_Witness ==
  \E j \in finished :
    job_results[j].infected > 0 /\ job_results[j].safe > 0

\* C2: a job adds a ledger entry if and only if every stage of it succeeded;
\* it then adds exactly one entry, with the configured retention.
C2_LedgerEntryIffAllSucceeded ==
  \A j \in Jobs :
    /\ Cardinality(LedgerEntriesOf(j)) <= 1
    /\ \A i \in LedgerEntriesOf(j) :
         /\ AllStagesSucceeded(j)
         /\ cleanup_schedule[i].delete_after_days = auto_delete_days
    /\ j \in finished =>
         (AllStagesSucceeded(j) <=> Cardinality(LedgerEntriesOf(j)) = 1)

\* C2 witness: a finished job with its ledger entry next to a finished job
\* whose notification failed after a successful upload and has none.
C2_Witness ==
  \E j, k \in finished :
    /\ Cardinality(LedgerEntriesOf(j)) = 1
    /\ job_results[k].upload /\ job_results[k].email /\ ~job_results[k].sent
    /\ LedgerEntriesOf(k) = {}

\* C8: the insert callback can always complete its enqueue, whatever the
\* queue length and whatever the workers are doing.
C8_EnqueueNeverBlocks ==
  \A device_info \in Snapshots : ENABLED on_usb_inserted(device_info)

\* C8 witness: the callback enqueued a job while a worker was inside the
\* pipeline of an earlier one.
C8_Witness ==
  /\ Len(processing_queue) >= 1
  /\ \E w \in DOMAIN workers : workers[w].pc \in PipelinePcs

InFlight == {start_order[i] : i \in 1..Len(start_order)} \ finished

\* C9: at most one job is in flight: at most one worker thread is inside
\* _process_usb_drive and at most one started job has not returned.
C9_AtMostOneJobInFlight ==
  /\ Cardinality({w \in DOMAIN workers : workers[w].pc \in PipelinePcs}) <= 1
  /\ Cardinality(InFlight) <= 1

\* C9 witness: a second job is in flight after the first one returned, while
\* two worker threads exist.
C9_Witness ==
  /\ Len(workers) = 2
  /\ Len(start_order) >= 2
  /\ Cardinality(InFlight) = 1

TimesStarted(j) ==
  Cardinality({i \in 1..Len(start_order) : start_order[i] = j})

TimesQueued(j) ==
  Cardinality({i \in 1..Len(processing_queue) : processing_queue[i].id = j})

AllWorkersExited ==
  /\ workers # <<>>
  /\ \A w \in DOMAIN workers : workers[w].pc = "exited"

\* C11 as stated: every enqueued job is dequeued and run exactly once: no job
\* is run twice, and once the worker loop has ended for good no enqueued job
\* is left in the queue.
C11_EveryJobRunExactlyOnce ==
  /\ \A j \in Jobs : TimesStarted(j) <= 1
  /\ (shutdown_event /\ AllWorkersExited) => processing_queue = <<>>

\* C11 amended: every enqueued job is at any time either waiting in the queue
\* once or has been dequeued and run once, never both and never twice; and a
\* job is still waiting after the worker loop has ended only if the service
\* was stopped.
C11_RunOnceUnlessShutDown ==
  /\ \A j \in Jobs : TimesStarted(j) + TimesQueued(j) = 1
  /\ (AllWorkersExited /\ processing_queue # <<>>) => shutdown_event

\* C11 witness: one job was run to its end, the service was stopped and the
\* worker loop ended while a later job was still waiting in the queue.
C11_Witness ==
  /\ shutdown_event
  /\ AllWorkersExited
  /\ finished # {}
  /\ processing_queue # <<>>

\* C12: a collaborator failure or an exception in one job ends only that job:
\* the step that ends a job leaves the queue as it is and the worker at the
\* head of its loop, a worker thread ends only when the loop condition is
\* false, and a worker that has not ended can always take its next step.
C12_FailureEndsOnlyThatJob ==
  /\ [][\A w \in DOMAIN workers :
          /\ (workers[w].pc # "exited" /\ workers'[w].pc = "exited")
                => ~worker_loop_condition
          /\ (workers[w].pc \in PipelinePcs
                /\ workers[w].job.id \in finished' \ finished)
                => (workers'[w].pc = "check"
                      /\ processing_queue' = processing_queue)]_vars
  /\ [](\A w \in DOMAIN workers :
          workers[w].pc # "exited" => ENABLED WorkerStep(w))

\* C12 witness: a job ended by an exception and a job ended by a collaborator
\* failure, one after the other, while the service kept running.
C12_Witness ==
  /\ {1, 2} \subseteq finished
  /\ job_results[1].raised
  /\ ~job_results[2].raised /\ ~AllStagesSucceeded(2)
  /\ job_results[2].mount_ok
  /\ ~shutdown_event

\* ==================================================== claims, the ledger
\* Number of occurrences of item in the ledger `schedule'.
Count(schedule, item) ==
  Cardinality({i \in DOMAIN schedule : schedule[i] = item})

\* C13: a sweep removes an entry only if both its local and its remote
\* deletion reported success in that sweep: of every entry, at least as many
\* occurrences are in the ledger after the sweep as it had positions where
\* one of the two failed or no deletion was attempted.
C13_RemovedOnlyIfBothSucceeded ==
  [][sweep_log'.ran =>
       \A i \in DOMAIN cleanup_schedule :
         Count(cleanup_schedule', cleanup_schedule[i]) >=
           Cardinality({k \in DOMAIN cleanup_schedule :
              /\ cleanup_schedule[k] = cleanup_schedule[i]
              /\ ~(sweep_log'.outcomes[k].local_ok
                     /\ sweep_log'.outcomes[k].cloud_deleted)})]_vars

\* C13 witness: a sweep has just removed one entry and kept another whose
\* remote deletion succeeded while the removal of its local file raised.
C13_Witness ==
  /\ sweep_log.ran
  /\ Len(cleanup_schedule) = 1
  /\ \E i, k \in DOMAIN sweep_log.outcomes :
       /\ sweep_log.outcomes[i].success
       /\ sweep_log.outcomes[k].attempted
       /\ sweep_log.outcomes[k].cloud_deleted
       /\ sweep_log.outcomes[k].found
       /\ ~sweep_log.outcomes[k].removed

\* The deletions of position k reported success: the uploader answered True
\* and a local file that was found was removed.
\* (read off the sweep that the step performs)
ReportedSuccess(k) ==
  /\ sweep_log'.outcomes[k].cloud_deleted
  /\ sweep_log'.outcomes[k].found => sweep_log'.outcomes[k].removed

\* C14: an entry whose deletion failed in an earlier sweep is attempted again
\* in every later sweep, and the sweep in which its deletions report success
\* removes it, whether or not its local file is still there: after the sweep
\* the ledger holds exactly the occurrences whose deletions did not report
\* success.
C14_FailedEntryRetriedUntilSuccess ==
  [][sweep_log'.ran =>
       \A i \in DOMAIN cleanup_schedule :
         cleanup_schedule[i] \in failed_before =>
           /\ sweep_log'.outcomes[i].attempted
           /\ Count(cleanup_schedule', cleanup_schedule[i]) =
                Cardinality({k \in DOMAIN cleanup_schedule :
                   /\ cleanup_schedule[k] = cleanup_schedule[i]
                   /\ ~ReportedSuccess(k)})]_vars

\* C14 witness: a sweep has just removed an entry that had failed in an
\* earlier sweep and whose local file was already gone.
C14_Witness ==
  /\ sweep_log.ran
  /\ \E i \in sweep_log.retried :
       /\ sweep_log.outcomes[i].attempted
       /\ ~sweep_log.outcomes[i].found
       /\ sweep_log.outcomes[i].success
  /\ Len(cleanup_schedule) < Len(sweep_log.outcomes)

\* C15: a sweep attempts the deletion of an entry exactly when the time
\* elapsed since its creation is at least its retention in whole days: from
\* creation time + retention days on, and not before.
C15_DueIffRetentionElapsed ==
  [][sweep_log'.ran =>
       \A i \in DOMAIN cleanup_schedule :
         sweep_log'.outcomes[i].attempted <=>
           (now - cleanup_schedule[i].upload_time >=
              cleanup_schedule[i].delete_after_days * UnitsPerDay)]_vars

\* C15 witness: a sweep has just attempted an entry created at a time with a
\* fraction of a second, exactly its retention of one day or more later,
\* and skipped another entry that was not due yet.
C15_Witness ==
  /\ sweep_log.ran
  /\ Len(cleanup_schedule) = Len(sweep_log.outcomes)
  /\ \E i, k \in DOMAIN cleanup_schedule :
       /\ sweep_log.outcomes[i].attempted
       /\ cleanup_schedule[i].delete_after_days >= 1
       /\ cleanup_schedule[i].upload_time % MicrosPerSecond # 0
       /\ now - cleanup_schedule[i].upload_time =
            cleanup_schedule[i].delete_after_days * UnitsPerDay
       /\ ~sweep_log.outcomes[k].attempted
       /\ now - cleanup_schedule[k].upload_time =
            cleanup_schedule[k].delete_after_days * UnitsPerDay - 1

\* The ledger file after a successful save of the in-memory ledger.
SavedNow ==
  written_file(ledger_file, schedule_data_of(cleanup_schedule), "ok")

\* C16: saving the ledger and loading it back yields the same entries in the
\* same order, each with the same path, link, name, creation time and
\* retention; and the steps of a save leave the in-memory ledger as it is.
C16_SaveLoadRoundTrip ==
  /\ [](load_cleanup_schedule(SavedNow) = cleanup_schedule)
  /\ [][(\E t \in LThreads :
           /\ lthreads[t].pc \in {"save_read", "save_write"}
           /\ lthreads'[t].pc # lthreads[t].pc
           /\ ~fresh_load')
          => cleanup_schedule' = cleanup_schedule]_vars

\* C16 witness: a ledger of two entries, one created at a time with a
\* fraction of a second, has been written and the file loads back to it.
C16_Witness ==
  /\ write_state = "ok"
  /\ Len(cleanup_schedule) >= 2
  /\ \E i \in DOMAIN cleanup_schedule :
       cleanup_schedule[i].upload_time % MicrosPerSecond # 0
  /\ ledger_file.state = "ok"
  /\ Len(ledger_file.data) = Len(cleanup_schedule)
  /\ load_cleanup_schedule(ledger_file) = cleanup_schedule

\* The stored entries whose timestamp parses, loaded.
ValidEntries(file) ==
  LET valid == SelectSeq(file.data, LAMBDA item : parsable(item.upload_time))
  IN [i \in DOMAIN valid |->
        [valid[i] EXCEPT !.upload_time = fromisoformat(@)]]

\* C17: on load, an entry whose timestamp cannot be parsed is dropped by
\* itself and every other entry is loaded: right after a load the ledger
\* holds the entries of the file whose timestamp parses, in their order.
C17_BadEntryDroppedAlone ==
  (fresh_load /\ ledger_file.state = "ok")
     => cleanup_schedule = ValidEntries(ledger_file)

\* C18: after a restart that follows a completed write, with no write begun
\* since, the loaded ledger holds exactly the entries of that write, in
\* their order.
C18_RestartLoadsLastWrite ==
  (fresh_load /\ write_state = "ok") => cleanup_schedule = last_written

\* C18 witness: the program was restarted after a completed write of two
\* entries.
C18_Witness ==
  /\ fresh_load
  /\ write_state = "ok"
  /\ Len(last_written) >= 2

AllIdle == \A t \in LThreads : lthreads[t].pc = "idle"

\* C19: the read-modify-persist sequences on the ledger exclude one another:
\* at most one thread is inside a ledger operation, and once all of them
\* have finished, the last write having succeeded, the file holds the
\* in-memory ledger.
C19_LedgerOpsMutuallyExclusive ==
  /\ Cardinality({t \in LThreads : lthreads[t].pc # "idle"}) <= 1
  /\ (AllIdle /\ write_state = "ok")
        => load_cleanup_schedule(ledger_file) = cleanup_schedule

\* C20: with one operation at a time, whenever no operation is in progress
\* and no write has failed since the last successful one, the file holds
\* exactly the entries of the in-memory ledger, in the same order: every
\* registration, removal, forced cleanup and sweep that changed the ledger
\* has been written.
C20_FileMirrorsLedger ==
  (AllIdle /\ write_state # "failed")
     => /\ load_cleanup_schedule(ledger_file) = cleanup_schedule
        /\ ledger_file.state = "ok" =>
             ledger_file.data = schedule_data_of(cleanup_schedule)
                \/ fresh_load

\* C20 witness: after a registration, the removals of a forced cleanup or a
\* sweep have emptied the ledger and the file has been rewritten empty.
C20_Witness ==
  /\ AllIdle
  /\ registered >= 1
  /\ write_state = "ok"
  /\ cleanup_schedule = <<>>
  /\ ledger_file = [state |-> "ok", data |-> <<>>]

\* ------------------------------------------------------ shutdown of the worker
\* C22: once the shutdown signal is set no worker takes a further job from
\* the queue (it only finishes the job it holds), and the call of stop()
\* that clears the running flag leaves the status phase "stopped".
C22_ShutdownStartsNoJobAndStops ==
  [][/\ shutdown_event => start_order' = start_order
     /\ (running /\ ~running') => status' = "stopped"]_vars

\* ------------------------------------------------- failures in the status
\* The job went past the mount check and ended in one of the failures: an
\* infected file, no archive, no upload, no share link, no recipient, no
\* notification, or an exception.
EndedInFailure(j) ==
  /\ job_results[j].mount_ok
  /\ \/ job_results[j].raised
     \/ job_results[j].infected > 0
     \/ job_results[j].safe > 0 /\ ~AllStagesSucceeded(j)

\* C24: the step that ends a job in a failure sets the status phase to
\* report it (error, or warning for the missing recipient), and the error
\* ring holds a record for every job that has ended in a failure.
C24_FailuresReachStatusAndRing ==
  /\ [][\A j \in Jobs :
          (j \in finished' \ finished /\ EndedInFailure(j)')
             => status' \in {"error", "warning"}]_vars
  /\ [](Cardinality({j \in finished : EndedInFailure(j)}) <= Len(errors))

\* -------------------------------------------------- claims, StatusManager
AllStIdle == \A t \in StThreads : sthreads[t].pc = "idle"

MinOf(a, b) == IF a < b THEN a ELSE b

\* At most one thread is inside a locked block, every increment applied is
\* counted and every error record applied is in the list (up to the 10 it
\* keeps).
StatusSerialized ==
  /\ Cardinality({t \in StThreads : sthreads[t].pc # "idle"}) <= 1
  /\ processing_count = status_calls.increment
  /\ Len(errors) = MinOf(status_calls.add_error, MaxErrorsKept)

\* C25 as stated: the mutations are serialized by the lock, none is lost,
\* and whenever no mutation is in progress the status file holds the
\* in-memory record.
C25_SerializedAndFileEqualsMemory ==
  /\ StatusSerialized
  /\ AllStIdle =>
       status_file = [state |-> "ok",
                      data |-> status_record(status, processing_count,
                                             errors)]

\* C25, amended: the mutations are serialized by the lock, none is lost,
\* and whenever no mutation is in progress and the latest write of the
\* status file succeeded, the file holds the in-memory record.
C25_SerializedAndFileEqualsMemoryIfWritten ==
  /\ StatusSerialized
  /\ (AllStIdle /\ status_calls.write = "ok") =>
       status_file = [state |-> "ok",
                      data |-> status_record(status, processing_count,
                                             errors)]

\* C25 witness: two increments, an error record
\* and a change of phase have all been applied and the file written.
C25_Witness ==
  /\ AllStIdle
  /\ status_calls.write = "ok"
  /\ processing_count = 2
  /\ Len(errors) >= 1
  /\ status_calls.set_status >= 1
  /\ status_file.state = "ok"
  /\ status_file.data.processing_count = 2

\* C26: the error list never holds more than 10 records, and they are the
\* latest records added, oldest first: the record at position i is the one
\* of the add_error call number (calls - length + i).
C26_ErrorRingKeepsLatestTen ==
  /\ Len(errors) <= MaxErrorsKept
  /\ Len(errors) = MinOf(status_calls.add_error, MaxErrorsKept)
  /\ \A i \in 1..Len(errors) :
       errors[i].timestamp = status_calls.add_error - Len(errors) + i

\* C26 witness: an eleventh record has pushed the first one out.
C26_Witness ==
  /\ status_calls.add_error > MaxErrorsKept
  /\ Len(errors) = MaxErrorsKept
  /\ errors[1].timestamp = status_calls.add_error - MaxErrorsKept + 1
  /\ errors[1].timestamp > 1

\* ------------------------------------------- claims, queries of the ledger
\* The whole days from the upload of the entry to now (rounded down, also
\* for an upload time ahead of the clock).
WholeDaysSince(item) ==
  CHOOSE d \in (0 - MaxTime - 1)..MaxTime :
    /\ d * UnitsPerDay <= now - item.upload_time
    /\ now - item.upload_time < (d + 1) * UnitsPerDay

\* What the query has to report for the entry.
ExpectedReport(item) ==
  [filename |-> item.filename,
   days_since_upload |-> WholeDaysSince(item),
   days_until_deletion |-> item.delete_after_days - WholeDaysSince(item)]

\* The reports of the list that say what e says.
ReportsLike(list, e) ==
  {k \in DOMAIN list :
     /\ list[k].filename = e.filename
     /\ list[k].days_since_upload = e.days_since_upload
     /\ list[k].days_until_deletion = e.days_until_deletion}

\* The entries of the ledger for which e is to be reported.
EntriesLike(e) ==
  {k \in DOMAIN cleanup_schedule : ExpectedReport(cleanup_schedule[k]) = e}

\* C29: get_cleanup_status reports, for every entry, the whole days since
\* its upload and the retention days minus these; the entry is listed in
\* expired_items when no day is left and in pending_cleanup otherwise, never
\* in both; total_scheduled is the number of entries; and the query leaves
\* the ledger, its file and the local files as they are.
C29_StatusQueryReportsEveryEntry ==
  [][returned'.op = "get_cleanup_status" =>
       LET v == returned'.value IN
         /\ v.total_scheduled = Len(cleanup_schedule)
         /\ Len(v.expired_items) + Len(v.pending_cleanup)
              = Len(cleanup_schedule)
         /\ \A i \in DOMAIN cleanup_schedule :
              LET e == ExpectedReport(cleanup_schedule[i]) IN
                /\ Cardinality(ReportsLike(v.expired_items, e)) =
                     IF e.days_until_deletion <= 0
                     THEN Cardinality(EntriesLike(e)) ELSE 0
                /\ Cardinality(ReportsLike(v.pending_cleanup, e)) =
                     IF e.days_until_deletion > 0
                     THEN Cardinality(EntriesLike(e)) ELSE 0
         /\ UNCHANGED <<cleanup_schedule, ledger_file, local_files, now>>]_vars

\* C29 witness: the query has just reported an entry with no day left as
\* expired and another entry as pending.
C29_Witness ==
  /\ returned.op = "get_cleanup_status"
  /\ returned.value.total_scheduled = 2
  /\ \E k \in DOMAIN returned.value.expired_items :
       returned.value.expired_items[k].days_until_deletion = 0
  /\ Len(returned.value.pending_cleanup) = 1

\* ------------------------------------------ claims, remove_from_schedule
\* The step of remove_from_schedule(name) up to its save: with an entry of
\* that name listed, the entries of that name are gone, the others are kept
\* in their order, the call goes on into save_cleanup_schedule and returns
\* True; with none listed the ledger is as it was and the call returns
\* False.  Neither the local files nor the ledger file change in the step.
RemoveOnlyUnlists ==
  returned'.op = "remove_from_schedule" =>
    LET name == returned'.arg
        listed == \E i \in DOMAIN cleanup_schedule :
                     cleanup_schedule[i].filename = name
    IN /\ returned'.value = listed
       /\ UNCHANGED <<local_files, ledger_file>>
       /\ IF listed
          THEN /\ cleanup_schedule' =
                    SelectSeq(cleanup_schedule,
                              LAMBDA item : item.filename # name)
               /\ lthreads'["manual"].pc = "save_read"
          ELSE UNCHANGED <<cleanup_schedule, lthreads>>

\* The save of remove_from_schedule has run to its end in this step.
RemoveCompleted ==
  /\ lthreads["manual"].op = "remove_from_schedule"
  /\ lthreads["manual"].pc = "save_write"
  /\ lthreads'["manual"].pc = "idle"
  /\ ~fresh_load'

\* C30 as stated: remove_from_schedule removes the entries of the name
\* without deleting anything and returns True, or returns False and changes
\* nothing; and when the call that removed entries completes, the ledger
\* file holds the ledger.
C30_RemoveUnlistsAndPersists ==
  [][/\ RemoveOnlyUnlists
     /\ RemoveCompleted =>
          /\ ledger_file' =
               [state |-> "ok", data |-> schedule_data_of(cleanup_schedule')]
          /\ local_files' = local_files]_vars

\* C30, amended: as above, the ledger file holding the ledger when the
\* write of the call succeeded.
C30_RemoveUnlistsAndPersistsIfWritten ==
  [][/\ RemoveOnlyUnlists
     /\ RemoveCompleted =>
          /\ write_state' = "ok" =>
               ledger_file' = [state |-> "ok",
                               data |-> schedule_data_of(cleanup_schedule')]
          /\ local_files' = local_files]_vars

\* C30 witness: the call has taken both entries named a.zip out of the
\* ledger, is about to save and returns True; the local copy is still there.
C30_Witness ==
  /\ returned.op = "remove_from_schedule"
  /\ returned.value
  /\ lthreads["manual"].pc = "save_read"
  /\ Len(lthreads["manual"].before) = 2
  /\ cleanup_schedule = <<>>
  /\ OldPath \in local_files

\* ------------------------------------------------ claims, cleanup thread
\* C23: once stop_cleanup_daemon has cleared the flag, the cleanup thread
\* sleeps through at most one more second before it tests the flag and
\* leaves its loop, whatever the interval and however the last sweep ended.
C23_StopSeenWithinOneSecond == late_ticks <= 1

\* ------------------------------------------------------- claims, stop()
\* C21: after stop() on a running service the monitor loop, the worker
\* loops and the cleanup loop have all ended at some later time, unless the
\* service has been started again.
C21_StopEndsAllLoops ==
  (shutdown_event /\ ~running)
     ~> (\/ running
         \/ /\ mon_pc = "exited"
            /\ AllWorkersExited
            /\ cleanup_pc = "exited")

\* ------------------------------------------- claims, monitor and failures
\* C28: when the event loop fails (at the subscription or later) the thread
\* goes on with the polling loop, with the known set, the cache and the
\* running flag as they were; from then on it stays in the polling loop,
\* which, while the monitor is running, always has a next step to take.
C28_EventFailureFallsBackToPolling ==
  /\ [][(mon_mode = "pyudev" /\ mon_mode' # "pyudev")
          => /\ mon_mode' = "polling"
             /\ UNCHANGED <<known_devices, device_info_cache, mon_running>>]_vars
  /\ [][mon_mode = "polling" => mon_mode' = "polling"]_vars
  /\ []((mon_mode = "polling" /\ mon_running) => ENABLED MonThreadStep)

\* C28 witness: a monitor that began with the event loop is in a poll cycle,
\* handling a new device, with a device known from before.
C28_Witness ==
  /\ use_pyudev
  /\ mon_running
  /\ mon_mode = "polling"
  /\ mon_pc = "grace"
  /\ \E d \in known_devices : d # mon_pending.device

\* C27: while the monitor is running its thread is alive, whatever failed
\* (the listing, the classification, the device lookup, the mount check, a
\* callback): the polling loop always has a next step to take, and the event
\* loop is waiting for the next event or finishing the handling of one.
C27_FailuresNeverEndMonitorLoop ==
  mon_running =>
    /\ mon_pc \in {"wait", "grace", "poll_new"}
    /\ mon_mode = "polling" => ENABLED MonThreadStep
    /\ (mon_mode = "pyudev" /\ mon_pc # "wait") =>
          /\ mon_pc = "grace"
          /\ ENABLED DeviceInsertedVerify

\* C27 witness: a callback has raised, the listing fails, and the polling
\* loop is in a later cycle, handling a new device.
C27_Witness ==
  /\ mon_running
  /\ callback_errors > 0
  /\ mon_mode = "polling"
  /\ mon_pc = "grace"
  /\ enum_fails

\* ------------------------------------------------- claims, force_cleanup
\* Position i of the ledger is selected by force_cleanup(name).
SelectedBy(name, i) == name = "" \/ cleanup_schedule[i].filename = name

\* The selected positions whose two deletions reported success in the call
\* that has just run.
ForceSucceeded(name) ==
  {i \in DOMAIN cleanup_schedule :
     /\ SelectedBy(name, i)
     /\ sweep_log'.outcomes[i].local_ok
     /\ sweep_log'.outcomes[i].cloud_deleted}

\* C31: force_cleanup hands exactly the selected entries (those of the given
\* name, or all without a name) to the deletion, due or not; afterwards the
\* ledger holds every entry as often as before minus its selected positions
\* whose local and remote deletion both succeeded, and the call returns the
\* number of those positions.
C31_ForceCleanupRemovesSucceededSelected ==
  [][returned'.op = "force_cleanup" =>
       LET name == returned'.arg
       IN /\ \A i \in DOMAIN cleanup_schedule :
               sweep_log'.outcomes[i].attempted <=> SelectedBy(name, i)
          /\ \A i \in DOMAIN cleanup_schedule :
               Count(cleanup_schedule', cleanup_schedule[i]) =
                 Cardinality({k \in DOMAIN cleanup_schedule :
                    /\ cleanup_schedule[k] = cleanup_schedule[i]
                    /\ k \notin ForceSucceeded(name)})
          /\ Len(cleanup_schedule') =
               Len(cleanup_schedule) - Cardinality(ForceSucceeded(name))
          /\ returned'.value = Cardinality(ForceSucceeded(name))]_vars

\* C31 witness: force_cleanup for a name has just removed the entry of that
\* name, at a time when the ledger's entries are not due, and has left the
\* entry of another name in place without attempting its deletion.
C31_Witness ==
  /\ returned.op = "force_cleanup"
  /\ returned.arg # ""
  /\ returned.value = 1
  /\ Len(sweep_log.outcomes) = 2
  /\ \E i \in DOMAIN sweep_log.outcomes : sweep_log.outcomes[i].success
  /\ \E i \in DOMAIN sweep_log.outcomes : ~sweep_log.outcomes[i].attempted
  /\ \A i \in DOMAIN cleanup_schedule :
       /\ ~is_due(cleanup_schedule[i], now)
       /\ cleanup_schedule[i].filename # returned.arg

\* ------------------------------------------------ claims, order of stages
StageOrder ==
  <<"scan", "archive", "upload", "share", "recipient", "notify", "schedule">>

\* Stage k of job j has answered and its answer lets the job go on.
StagePassed(j, k) ==
  CASE k = 1 -> job_results[j].infected = 0 /\ job_results[j].safe > 0
    [] k = 2 -> job_results[j].zip
    [] k = 3 -> job_results[j].upload
    [] k = 4 -> job_results[j].share
    [] k = 5 -> job_results[j].email
    [] k = 6 -> job_results[j].sent
    [] OTHER -> TRUE

\* C32: the stages invoked for a job are an initial part of scan, archive,
\* upload, share link, recipient, notify, schedule cleanup, in that order and
\* each once; a stage is invoked only when every stage before it has passed,
\* so nothing is invoked after the first stage that failed, ended the job or
\* raised.
C32_StagesInOrderAndShortCircuit ==
  \A j \in Jobs :
    /\ Len(job_trace[j]) <= Len(StageOrder)
    /\ \A k \in 1..Len(job_trace[j]) :
         /\ job_trace[j][k] = StageOrder[k]
         /\ \A m \in 1..(k - 1) : StagePassed(j, m)
    /\ job_results[j].raised => j \in finished

\* C32 witness: one finished job ran all seven stages, another one ended at a
\* missing share link after four.
C32_Witness ==
  \E j, k \in finished :
    /\ job_trace[j] = StageOrder
    /\ Len(job_trace[k]) = 4
    /\ job_results[k].upload
    /\ ~job_results[k].share
    /\ ~job_results[k].raised

\* --------------------------------------- claims, the orphaned artifact
\* The collaborator calls a job may have made up to its notification.
UpToNotify == {"scan", "archive", "upload", "share", "recipient", "notify"}

\* C33: a job whose upload succeeded and that has no recipient address or no
\* sent notification has made no call beyond scan .. notify (no deletion at
\* the uploader, no schedule_deletion) and the ledger holds no entry of it.
C33_NoRollbackNoLedgerEntry ==
  \A j \in Jobs :
    (job_results[j].upload /\ ~(job_results[j].email /\ job_results[j].sent))
      => /\ StagesOf(j) \subseteq UpToNotify
         /\ LedgerEntriesOf(j) = {}

\* C33 witness: a finished job without a recipient and a finished job whose
\* notification failed, both after a successful upload and share link.
C33_Witness ==
  \E j, k \in finished :
    /\ job_results[j].upload /\ job_results[j].share
    /\ ~job_results[j].email
    /\ job_trace[j][Len(job_trace[j])] = "recipient"
    /\ job_results[k].upload /\ job_results[k].email
    /\ ~job_results[k].sent /\ ~job_results[k].raised
    /\ job_trace[k][Len(job_trace[k])] = "notify"

\* ------------------------------------------ claims, the unsaved registration
\* The entries a restart would load from the file.
Durable(file) ==
  {load_cleanup_schedule(file)[i] : i \in DOMAIN load_cleanup_schedule(file)}

\* This step is the end of a schedule_deletion whose write failed.
RegistrationWriteFails ==
  /\ lthreads["worker"].op = "schedule_deletion"
  /\ lthreads["worker"].pc = "save_write"
  /\ lthreads'["worker"].pc = "idle"
  /\ write_state' = "failed"

\* C34: a write that fails at the end of schedule_deletion ends the call like
\* a successful one and leaves the in-memory ledger with the new entry as
\* its last; the file has gained nothing by it; a sweep attempts every due
\* entry of the in-memory ledger, written or not; and the file changes to
\* the in-memory ledger with the next write that succeeds.
C34_FailedWriteKeepsEntryInMemory ==
  [][/\ RegistrationWriteFails =>
          /\ lthreads'["worker"] = Idle
          /\ cleanup_schedule' = cleanup_schedule
          /\ cleanup_schedule =
               Append(lthreads["worker"].before,
                      cleanup_schedule[Len(cleanup_schedule)])
          /\ Durable(ledger_file') \subseteq Durable(ledger_file)
     /\ sweep_log'.ran =>
          \A i \in DOMAIN cleanup_schedule :
            is_due(cleanup_schedule[i], now) =>
              sweep_log'.outcomes[i].attempted
     /\ (ledger_file' # ledger_file /\ write_state' = "ok") =>
          load_cleanup_schedule(ledger_file') = cleanup_schedule'
     /\ Durable(ledger_file') \subseteq Durable(ledger_file)
          \/ write_state' = "ok"]_vars

\* C34 witness: the write of a registration has failed, and a later sweep
\* has just attempted the deletion of that entry, which is in the in-memory
\* ledger and not in the file.
C34_Witness ==
  /\ write_state = "failed"
  /\ registered >= 1
  /\ sweep_log.ran
  /\ \E i \in DOMAIN cleanup_schedule :
       /\ cleanup_schedule[i].file_path \in FilePaths
       /\ cleanup_schedule[i] \notin Durable(ledger_file)
       /\ i \in DOMAIN sweep_log.outcomes
       /\ sweep_log.outcomes[i].attempted

\* ------------------------------------- claims, removal after no verification
\* C36: a path whose latest mount verification failed is in the known set
\* and has a cached snapshot; the step that ends this for a path either
\* verifies it after all or handles its removal; and every removal callback
\* is handed the snapshot the cache held for the path, while the path leaves
\* the known set and the cache.
C36_UnverifiedStaysTrackedUntilRemoved ==
  [][\A d \in Devices :
       /\ d \in unverified' =>
            /\ d \in known_devices'
            /\ device_info_cache'[d] # NoInfo
       /\ (d \in unverified /\ d \notin unverified') =>
            \/ insert_calls'[d] = insert_calls[d] + 1
            \/ remove_calls'[d] = remove_calls[d] + 1
       /\ remove_calls'[d] # remove_calls[d] =>
            /\ remove_calls'[d] = remove_calls[d] + 1
            /\ device_info_cache[d] # NoInfo
            /\ remove_arg'[d] = device_info_cache[d]
            /\ d \notin known_devices'
            /\ device_info_cache'[d] = NoInfo]_vars

\* C36 witness: the event loop recorded a device before it was mounted, the
\* verification failed, the device was removed, and the removal callback got
\* the cached snapshot, the one without a mount point, although no insert
\* callback had fired.
C36_Witness ==
  \E d \in Devices :
    /\ mon_mode = "pyudev"
    /\ remove_arg[d] = Info(d, FALSE)
    /\ remove_calls[d] = 1
    /\ insert_calls[d] = 0
    /\ d \notin known_devices
    /\ device_info_cache[d] = NoInfo
    /\ d \notin attached

\* ------------------------------------------ claims, the null mount point
\* Worker w is about to check a job whose snapshot has no mount point.
HoldsNullMountJob(w) ==
  /\ workers[w].pc = "mount"
  /\ ~workers[w].job.device.mount_point

\* C37: the step of a worker that checks a job whose snapshot has no mount
\* point ends the job: the worker is back at its loop, no collaborator has
\* been called and the status record is as before; no job that did not pass
\* the check has a collaborator call on record.  This includes snapshots the
\* event loop took before the mount it verified a second later.
C37_NullMountPointJobIsSkipped ==
  [][/\ \A w \in DOMAIN workers :
          (HoldsNullMountJob(w) /\ workers'[w] # workers[w]) =>
             /\ workers'[w] = [pc |-> "check", job |-> NoJob]
             /\ workers[w].job.id \in finished'
             /\ job_trace' = job_trace
             /\ job_results' = job_results
             /\ status' = status
             /\ errors' = errors
             /\ processing_count' = processing_count
     /\ \A j \in 1..Len(job_trace') :
          ~job_results'[j].mount_ok => job_trace'[j] = <<>>]_vars

\* C37 witness: the event loop cached a snapshot without a mount point,
\* verified the mount a second later and called back; the worker has ended
\* the job without a collaborator call, with the device mounted all along.
C37_Witness ==
  \E d \in Devices :
    /\ device_info_cache[d] = Info(d, FALSE)
    /\ d \in mounted
    /\ insert_calls[d] = 1
    /\ Len(job_trace) = 1
    /\ 1 \in finished
    /\ job_trace[1] = <<>>
    /\ status = "processing"

\* --------------------------------- claims, devices present at start()
\* C38: a device that the initial scan of start() recorded is in the known
\* set and the cache right after start(), and no step invokes the insert
\* callback for it while it has stayed attached since.
C38_ScannedDeviceNeverInserts ==
  [][\A d \in Devices :
       /\ (d \in scanned' /\ d \notin scanned) =>
            /\ d \in known_devices'
            /\ device_info_cache'[d] = Info(d, TRUE)
       /\ d \in scanned => insert_calls'[d] = insert_calls[d]]_vars

\* ------------------------------- claims, sweep against manual removal
\* C40: whatever a manual removal did between the two loops of a sweep, the
\* removal loop of the sweep ends without an exception (the thread goes on
\* to the save or to its wait, not to the exception handler) and none of the
\* entries the sweep deleted is listed afterwards.
C40_SweepSurvivesConcurrentRemoval ==
  [][(cleanup_pc = "remove" /\ cleanup_pc' # "remove") =>
       /\ cleanup_pc' \in {"save", "sleep"}
       /\ \A i \in DOMAIN items_to_remove :
            Count(cleanup_schedule', items_to_remove[i]) = 0
       /\ items_to_remove # <<>> => lthreads'["daemon"].pc = "save_read"]_vars

\* ------------------------------------------- claims, start() and stop()
\* The threads that are inside the handling of an event or of a poll cycle.
HandlingNow ==
  (IF mon_pc \in {"grace", "poll_new"} THEN 1 ELSE 0)
    + Cardinality({i \in DOMAIN mon_old :
                     mon_old[i].pc \in {"grace", "poll_new"}})

\* C39: whatever calls of start() and stop() were made, at most one monitor
\* thread is inside the handling of an event or of a poll cycle at a time.
C39_AtMostOneMonitorLoop ==
  HandlingNow <= 1

\* ------------------------------------------- claims, order of the callbacks
\* The ids of the queued jobs, which number the insert callbacks, increase
\* from the head of the queue to its end.
InCallbackOrder(items) ==
  \A i, j \in DOMAIN items : i < j => items[i].id < items[j].id

\* C35: for every device path the callbacks follow the monitor's
\* observations.  An insert callback for a path is made only for the
\* insertion the monitor observed last and is waiting on, once, with the
\* snapshot of that observation, and its job goes to the end of the queue;
\* while the monitor waits on an observed insertion it observes nothing else
\* and makes no other callback; a remove callback is made in the step that
\* observes the removal; the queue changes only by insert callbacks and its
\* jobs stand in callback order.
C35_CallbacksAndJobsInObservedOrder ==
  [][/\ \A d \in Devices :
          insert_calls'[d] # insert_calls[d] =>
            /\ mon_pc = "grace" /\ mon_pending.device = d
            /\ insert_calls'[d] = insert_calls[d] + 1
            /\ Len(processing_queue') = Len(processing_queue) + 1
            /\ SubSeq(processing_queue', 1, Len(processing_queue))
                 = processing_queue
            /\ processing_queue'[Len(processing_queue')].device = mon_pending
     /\ mon_pc = "grace" =>
          /\ remove_calls' = remove_calls
          /\ known_devices' = known_devices
          /\ device_info_cache' = device_info_cache
          /\ \A e \in Devices \ {mon_pending.device} :
               insert_calls'[e] = insert_calls[e]
     /\ \A d \in Devices :
          remove_calls'[d] # remove_calls[d] =>
            /\ mon_pc # "grace"
            /\ remove_calls'[d] = remove_calls[d] + 1
            /\ d \in known_devices \/ device_info_cache[d] # NoInfo
            /\ d \notin known_devices'
            /\ device_info_cache'[d] = NoInfo
            /\ processing_queue' = processing_queue
     /\ processing_queue' # processing_queue =>
          \E d \in Devices : insert_calls'[d] # insert_calls[d]
     /\ InCallbackOrder(processing_queue')]_vars

\* One path was called back for an insertion, for its removal and for a
\* second insertion, and both jobs are queued, the first insertion's first.
C35_Witness ==
  \E d \in Devices :
    /\ insert_calls[d] = 2
    /\ remove_calls[d] = 1
    /\ Len(processing_queue) = 2
    /\ processing_queue[1].id = 1
    /\ processing_queue[2].device.device = d

====
